---- MODULE Spec2Model ----
(***************************************************************************)
(* A model of mohae/rollie's template front end: the tokenizer of          *)
(* src/parse/lex.go (first copy in the file, lines 1-605), the parser of   *)
(* src/parse/parse.go and the two-slot channel between them.               *)
(*                                                                         *)
(* Strings are TLA+ strings; s[a:b] of Go is Slice(s, a, b).  Positions    *)
(* are byte offsets from 0, as in the source.  All modelled input is       *)
(* ASCII, so a rune is a one-character string and its width is 1.          *)
(***************************************************************************)
EXTENDS Integers, Sequences, FiniteSets, TLC

VARIABLES
    l,          \* the lexer struct, with its items channel and the sends
                \* the lexer goroutine has still to make in its current state function
    consumer,   \* who receives from l.items: "Parse" (Tree.Parse) or "Collect" (Collect)
    recvd,      \* the items the consumer has taken with nextItem, in order
    w,          \* the consumer's state: the parser's structures, or Collect's position
    heap,       \* the cells of the nodes a caller of Copy holds
    src,        \* the address of the node Copy is called on
    dup,        \* the address Copy has returned, 0 before the call
    snap,       \* the heap as Copy left it
    muts        \* the writes the caller has made through the copy

nodeVars == <<heap, src, dup, snap, muts>>
vars == <<l, consumer, recvd, w, nodeVars>>

----------------------------------------------------------------------------
(* Bounds of the model *)

\* Number of fragments concatenated into a generated input text.
MaxFrags == 3
\* A consumer stops being modelled after it has taken this many items (only a
\* token stream that never ends reaches it).
MaxItems == 20

\* the writes a caller makes through a copy
MaxMutations == 2

----------------------------------------------------------------------------
(* Strings *)

\* s[a:b]
Slice(s, a, b) == SubSeq(s, a + 1, b)

\* s[p:]
From(s, p) == SubSeq(s, p + 1, Len(s))

\* strings.HasPrefix
HasPrefix(s, prefix) ==
    /\ Len(prefix) <= Len(s)
    /\ SubSeq(s, 1, Len(prefix)) = prefix

\* strings.Index: the first offset at which sep occurs in s, or -1
Index(s, sep) ==
    LET hits == {i \in 0..Len(s) : HasPrefix(From(s, i), sep)}
    IN  IF hits = {} THEN -1
        ELSE CHOOSE i \in hits : \A j \in hits : i <= j

\* strings.Count(s, "\n")
CountNL(s) == Cardinality({i \in 1..Len(s) : SubSeq(s, i, i) = "\n"})

\* the characters unicode.IsSpace accepts, among those of the modelled inputs
IsUnicodeSpace(c) == c \in {" ", "\t", "\n", "\r"}

RECURSIVE TrimLeft(_)
TrimLeft(s) ==
    IF Len(s) > 0 /\ IsUnicodeSpace(SubSeq(s, 1, 1)) THEN TrimLeft(From(s, 1)) ELSE s

RECURSIVE TrimRight(_)
TrimRight(s) ==
    IF Len(s) > 0 /\ IsUnicodeSpace(SubSeq(s, Len(s), Len(s)))
    THEN TrimRight(SubSeq(s, 1, Len(s) - 1)) ELSE s

\* strings.TrimSpace
TrimSpace(s) == TrimRight(TrimLeft(s))

----------------------------------------------------------------------------
(* lex.go: items and the lexer struct *)

OTag == "{{"
CTag == "}}"

\* const eof = -1: the value next() returns at the end of the input
eof == "eof"

\* capacity of the items channel: make(chan item, 2)
ChanCap == 2

Item(t, p, v) == [typ |-> t, pos |-> p, value |-> v]

\* var itemEmpty item: the zero item; the zero itemType is ERROR
itemEmpty == Item("ERROR", 0, "")

isSpace(r) == r = " " \/ r = "\t"
isCR(r) == r = "\r"
isNL(r) == r = "\n"

\* lexer.current: the rune at pos, eof at the end of the input
lexer_current(lx) ==
    IF lx.pos >= Len(lx.input) THEN eof ELSE SubSeq(lx.input, lx.pos + 1, lx.pos + 1)

\* lexer.next: the lexer after next(); the rune returned is lexer_current before it
lexer_next(lx) ==
    IF lx.pos >= Len(lx.input) THEN [lx EXCEPT !.width = 0]
    ELSE [lx EXCEPT !.width = 1, !.pos = @ + 1]

\* lexer.backup
lexer_backup(lx) == [lx EXCEPT !.pos = @ - lx.width]

\* lexer.peek: the rune is lexer_current; this is the lexer it leaves
lexer_peek(lx) == lexer_backup(lexer_next(lx))

\* An emit that does not move l.start: the next item starts where this one did.
lexer_emit_keeps_start(lx, t) ==
    [lx EXCEPT !.sending = Append(@, Item(t, lx.start, Slice(lx.input, lx.start, lx.pos)))]

\* lexer.emit: a send on l.items; the goroutine blocks in it until there is room
lexer_emit(lx, t) ==
    [lx EXCEPT !.sending = Append(@, Item(t, lx.start, Slice(lx.input, lx.start, lx.pos))),
               !.start = lx.pos]

\* lexer.ignore
lexer_ignore(lx) == [lx EXCEPT !.start = lx.pos]

\* A lexer.errorf whose nil is not returned by the state function: the ERROR
\* item is sent and the state function stays the next state.
lexer_errorf_goes_on(lx, msg) ==
    [lx EXCEPT !.sending = Append(@, Item("ERROR", lx.start, msg))]

\* lexer.errorf: sends the ERROR item and returns nil, which every caller returns
\* as its next state
lexer_errorf(lx, msg) ==
    [lx EXCEPT !.sending = Append(@, Item("ERROR", lx.start, msg)),
               !.state = "nil"]

\* A lex that starts every lexer with the default pair.
lex_default_pair(name, input, oTag, cTag) ==
    [name |-> name, input |-> input,
     oTag |-> OTag, oLen |-> Len(OTag), cTag |-> CTag, cLen |-> Len(CTag),
     state |-> "lexText", pos |-> 0, start |-> 0, width |-> 0, lastPos |-> 0,
     items |-> <<>>, sending |-> <<>>, spin |-> FALSE]

\* lex: the lexer as run() starts it (state = lexText)
lex(name, input, oTag, cTag) ==
    LET o == IF oTag = "" THEN OTag ELSE oTag
        c == IF cTag = "" THEN CTag ELSE cTag
    IN  [name |-> name, input |-> input,
         oTag |-> o, oLen |-> Len(o), cTag |-> c, cLen |-> Len(c),
         state |-> "lexText", pos |-> 0, start |-> 0, width |-> 0, lastPos |-> 0,
         items |-> <<>>, sending |-> <<>>, spin |-> FALSE]

----------------------------------------------------------------------------
(* lex.go: the state functions.  Each returns the lexer with state set to  *)
(* the state function it returns.  A statement followed by the rest of the *)
(* function is written CHOOSE r \in {rest(v) : v \in {statement}} : TRUE,   *)
(* the rest applied to the value the statement leaves.                     *)

\* lexCTag
lexCTag(lx) ==
    [lexer_emit([lx EXCEPT !.pos = @ + lx.cLen], "itemCTag") EXCEPT !.state = "lexText"]

\* lexSpace
RECURSIVE lexSpaceLoop(_)
lexSpaceLoop(lx) ==
    IF isSpace(lexer_current(lx)) THEN CHOOSE r \in {lexSpaceLoop(n) : n \in {lexer_next(lx)}} : TRUE
    ELSE lexer_peek(lx)

lexSpace(lx) == [lexer_emit(lexSpaceLoop(lx), "itemSpace") EXCEPT !.state = "lexText"]

\* lexCR
lexCR(lx) == [lexer_emit(lexer_next(lx), "itemCR") EXCEPT !.state = "lexText"]

\* lexNL
lexNL(lx) == [lexer_emit(lexer_next(lx), "itemNL") EXCEPT !.state = "lexText"]

\* the for loop of lexText up to the iteration that leaves it
RECURSIVE lexTextLoop(_)
lexTextLoop(lx) ==
    LET c == lexer_current(lx)
    IN  IF \/ HasPrefix(From(lx.input, lx.pos), lx.oTag)
           \/ isCR(c) \/ isNL(c) \/ isSpace(c)
        THEN lx
        ELSE IF c = eof THEN lexer_next(lx)
        ELSE CHOOSE r \in {lexTextLoop(n) : n \in {lexer_next(lx)}} : TRUE

\* lexText where it leaves its loop, s being the lexer there
lexText_leave(s) ==
    LET c == lexer_current(s)
        e == IF s.pos > s.start THEN lexer_emit(s, "itemText") ELSE s
    IN  IF HasPrefix(From(s.input, s.pos), s.oTag) THEN [e EXCEPT !.state = "lexOTag"]
        ELSE IF isCR(c) THEN lexCR(e)
        ELSE IF isNL(c) THEN lexNL(e)
        ELSE IF isSpace(c) THEN lexSpace(e)
        ELSE [lexer_emit(e, "EOF") EXCEPT !.state = "nil"]

\* lexText
lexText(lx) == CHOOSE r \in {lexText_leave(s) : s \in {lexTextLoop(lx)}} : TRUE

\* A lexOTag whose default case has no l.backup(): the marker of an escaped
\* variable takes the character after the delimiter with it.
lexOTag_no_backup(lx) ==
    LET a == [lx EXCEPT !.pos = @ + lx.oLen]
        r == lexer_current(a)
        n == lexer_next(a)
    IN  CASE r = "!" -> [lexer_emit(n, "tagComment") EXCEPT !.state = "lexComment"]
          [] r \in {"{", "&"} -> [lexer_emit(n, "tagUnescaped") EXCEPT !.state = "lexUnescaped"]
          [] r = "#" -> [lexer_emit(n, "tagSection") EXCEPT !.state = "lexSection"]
          [] r = "/" -> [lexer_emit(n, "tagEndSection") EXCEPT !.state = "lexSection"]
          [] r = "^" -> [lexer_emit(n, "tagInverted") EXCEPT !.state = "lexSection"]
          [] r = ">" -> [lexer_emit(n, "tagPartial") EXCEPT !.state = "lexPartial"]
          [] r = "=" -> [lexer_emit(n, "tagDeltaDelimiter") EXCEPT !.state = "lexDeltaDelimiter"]
          [] OTHER -> [lexer_emit(n, "tagEscaped") EXCEPT !.state = "lexEscaped"]

\* lexOTag
lexOTag(lx) ==
    LET a == [lx EXCEPT !.pos = @ + lx.oLen]
        r == lexer_current(a)
        n == lexer_next(a)
    IN  CASE r = "!" -> [lexer_emit(n, "tagComment") EXCEPT !.state = "lexComment"]
          [] r \in {"{", "&"} -> [lexer_emit(n, "tagUnescaped") EXCEPT !.state = "lexUnescaped"]
          [] r = "#" -> [lexer_emit(n, "tagSection") EXCEPT !.state = "lexSection"]
          [] r = "/" -> [lexer_emit(n, "tagEndSection") EXCEPT !.state = "lexSection"]
          [] r = "^" -> [lexer_emit(n, "tagInverted") EXCEPT !.state = "lexSection"]
          [] r = ">" -> [lexer_emit(n, "tagPartial") EXCEPT !.state = "lexPartial"]
          [] r = "=" -> [lexer_emit(n, "tagDeltaDelimiter") EXCEPT !.state = "lexDeltaDelimiter"]
          [] OTHER -> [lexer_emit(lexer_backup(n), "tagEscaped") EXCEPT !.state = "lexEscaped"]

\* lexComment
lexComment(lx) ==
    LET g == lexer_ignore(lx)
        i == Index(From(g.input, g.pos), g.cTag)
    IN  IF i < 0 THEN lexer_errorf(g, "unclosed comment tag")
        ELSE IF i = 0 THEN [g EXCEPT !.state = "lexCTag"]
        ELSE [lexer_emit([g EXCEPT !.pos = @ + i], "itemDiscard") EXCEPT !.state = "lexCTag"]

\* lexEscaped
lexEscaped(lx) ==
    LET i == Index(From(lx.input, lx.pos), lx.cTag)
    IN  IF i < 0 THEN lexer_errorf(lx, "unclosed escaped variable tag")
        ELSE IF i = 0 THEN [lx EXCEPT !.state = "lexCTag"]
        ELSE [lexer_emit([lx EXCEPT !.pos = @ + i], "identEscaped") EXCEPT !.state = "lexCTag"]

\* lexUnescaped
lexUnescaped(lx) ==
    LET i == Index(From(lx.input, lx.pos), lx.cTag)
        e == lexer_emit([lx EXCEPT !.pos = @ + i], "identUnescaped")
    IN  IF i < 0 THEN lexer_errorf(lx, "unclosed escaped variable tag")
        ELSE IF i = 0 THEN [lx EXCEPT !.state = "lexCTag"]
        ELSE IF HasPrefix(From(e.input, e.pos), "}" \o e.cTag)
             THEN [e EXCEPT !.pos = @ + 1, !.start = e.pos + 1, !.state = "lexCTag"]
             ELSE [e EXCEPT !.state = "lexCTag"]

\* lexSection
lexSection(lx) ==
    LET i == Index(From(lx.input, lx.pos), lx.cTag)
    IN  IF i < 0 THEN lexer_errorf(lx, "unclosed tag")
        ELSE [lexer_emit([lx EXCEPT !.pos = @ + i], "itemIdentifier") EXCEPT !.state = "lexCTag"]

\* lexPartial
lexPartial(lx) ==
    LET i == Index(From(lx.input, lx.pos), lx.cTag)
    IN  IF i < 0 THEN lexer_errorf(lx, "unclosed escaped variable tag")
        ELSE IF i = 0 THEN [lx EXCEPT !.state = "lexCTag"]
        ELSE [lexer_emit([lx EXCEPT !.pos = @ + i], "itemIdentifier") EXCEPT !.state = "lexCTag"]

\* skipWhitespace: the lexer it leaves; the value it returns is that lexer's pos
RECURSIVE skipWhitespace(_)
skipWhitespace(lx) ==
    IF isSpace(lexer_current(lx)) THEN CHOOSE r \in {skipWhitespace(n) : n \in {lexer_next(lexer_peek(lx))}} : TRUE
    ELSE lexer_ignore(lexer_peek(lx))

\* nextWhitespace: ret is the value returned, the offset just past the first
\* space or tab at or after pos.  The loop has no exit at eof: with no space
\* left in the input next() returns eof for ever (spin).  The lexer itself is
\* left as it was, but for width.
nextWhitespace(lx) ==
    LET hits == {p \in lx.pos..(Len(lx.input) - 1) : isSpace(SubSeq(lx.input, p + 1, p + 1))}
    IN  IF hits = {} THEN [spin |-> TRUE, ret |-> -1]
        ELSE [spin |-> FALSE, ret |-> 1 + (CHOOSE p \in hits : \A q \in hits : p <= q)]

\* the loop of lexDeltaDelimiter that gathers the new cTag: for l.peek() != '='.
\* At eof peek() is never '=', next() does not advance, and the loop does not end.
RECURSIVE lexDeltaCTagLoop(_)
lexDeltaCTagLoop(lx) ==
    LET r == lexer_current(lx)
    IN  IF r = "=" THEN lexer_peek(lx)
        ELSE IF r = eof THEN [lx EXCEPT !.spin = TRUE, !.width = 0]
        ELSE CHOOSE s \in {lexDeltaCTagLoop(n) :
                            n \in {IF r = " " THEN lexer_next(lx)
                                   ELSE [lexer_next(lx) EXCEPT !.cTag = @ \o r]}} : TRUE

\* lexDeltaDelimiter from "if l.peek() != '='", s5 being the lexer after the
\* last skipWhitespace
lexDeltaDelimiter_close(s5, origCTagPos, cLenOrig) ==
    IF lexer_current(s5) # "="
    THEN lexer_errorf(s5, "rollie: expected '=' got another rune while trying to close a change delimiter tag")
    ELSE [lexer_emit([s5 EXCEPT !.start = origCTagPos, !.pos = origCTagPos + cLenOrig],
                     "itemCTag")
            EXCEPT !.state = "lexText"]

\* lexDeltaDelimiter from "l.cLen = len(l.cTag)", s4 being the lexer after the loop
lexDeltaDelimiter_cTag(s4, origCTagPos, cLenOrig) ==
    IF s4.spin THEN s4
    ELSE CHOOSE r \in {lexDeltaDelimiter_close(s5, origCTagPos, cLenOrig) :
                            s5 \in {skipWhitespace([s4 EXCEPT !.cLen = Len(s4.cTag)])}} : TRUE

\* A lexDeltaDelimiter that gathers the new cTag but leaves out the assignment
\* of l.oTag and l.oLen.
lexDeltaDelimiter_oTag_kept(s1, endPos, origCTagPos, cLenOrig) ==
    LET s2 == [s1 EXCEPT !.start = endPos, !.pos = endPos, !.width = 1]
    IN  CHOOSE r \in {lexDeltaDelimiter_cTag(s4, origCTagPos, cLenOrig) :
                         s4 \in {lexDeltaCTagLoop([skipWhitespace(s2) EXCEPT !.cTag = ""])}} : TRUE

\* lexDeltaDelimiter from "l.oTag = strings.TrimSpace(l.input[pos:endPos])",
\* s1 being the lexer after the first skipWhitespace
lexDeltaDelimiter_oTag(s1, endPos, origCTagPos, cLenOrig) ==
    LET newO == TrimSpace(Slice(s1.input, s1.pos, endPos))
        s2 == [s1 EXCEPT !.oTag = newO, !.oLen = Len(newO), !.start = endPos,
                         !.pos = endPos, !.width = 1]
    IN  CHOOSE r \in {lexDeltaDelimiter_cTag(s4, origCTagPos, cLenOrig) :
                         s4 \in {lexDeltaCTagLoop([skipWhitespace(s2) EXCEPT !.cTag = ""])}} : TRUE

\* lexDeltaDelimiter from "endPos := nextWhitespace(l)", nw being what
\* nextWhitespace does
lexDeltaDelimiter_endPos(s1, nw, origCTagPos, cLenOrig) ==
    IF s1.pos < 0
    THEN lexer_errorf(s1, "rollie: unexpected EOF encountered while changing delimiters")
    ELSE IF nw.spin THEN [s1 EXCEPT !.spin = TRUE, !.width = 0]
    ELSE IF nw.ret < 0
         THEN lexer_errorf(s1, "rollie: unable to find end of new delimiter, check that there is a space following it")
    ELSE lexDeltaDelimiter_oTag(s1, nw.ret, origCTagPos, cLenOrig)

\* lexDeltaDelimiter from "pos := skipWhitespace(l)", s1 being the lexer after it
lexDeltaDelimiter_pos(s1, origCTagPos, cLenOrig) ==
    CHOOSE r \in {lexDeltaDelimiter_endPos(s1, nw, origCTagPos, cLenOrig) :
                     nw \in {nextWhitespace(s1)}} : TRUE

\* lexDeltaDelimiter (lexΔDelimiter)
lexDeltaDelimiter(lx) ==
    LET i == Index(From(lx.input, lx.pos), lx.cTag)
    IN  IF i < 0 THEN lexer_errorf(lx, "rollie: unclosed delimiter tag")
        ELSE CHOOSE r \in {lexDeltaDelimiter_pos(s1, i + lx.pos, lx.cLen) :
                              s1 \in {skipWhitespace(lx)}} : TRUE

\* lexer.nextItem: the lexer after the receive of the head of l.items
lexer_nextItem(lx) ==
    [lx EXCEPT !.items = Tail(@), !.lastPos = Head(lx.items).pos]

----------------------------------------------------------------------------
(* lex.go: Collect, a consumer that takes items up to the terminal one *)

Collect_start == [st |-> "wait"]

Collect_step(c, it) ==
    IF it.typ = "EOF" \/ it.typ = "ERROR" THEN [st |-> "ok"] ELSE [st |-> "wait"]

----------------------------------------------------------------------------
(* node.go (src/unnamed/part_001): the nodes the parser builds *)

\* a nil Node, and a nil *ListNode
NilNode == [Type |-> "nil"]

newText(pos, text) == [Type |-> "NodeText", Pos |-> pos, Text |-> text]
newNL(pos, text) == [Type |-> "NodeNL", Pos |-> pos, Text |-> text]
newCR(pos, text) == [Type |-> "NodeCR", Pos |-> pos, Text |-> text]
newSpace(pos, text) == [Type |-> "NodeSpace", Pos |-> pos, Text |-> text]
newPartial(pos, ident) == [Type |-> "NodePartial", Pos |-> pos, Ident |-> ident]
newEnd(pos, name) == [Type |-> "NodeEnd", Pos |-> pos, Name |-> name]
newList(pos) == [Type |-> "NodeList", Pos |-> pos, Nodes |-> <<>>]
newCommand(pos) == [Type |-> "NodeCommand", Pos |-> pos, Args |-> <<>>]
newPipeline(pos, line, decl) ==
    [Type |-> "NodePipe", Pos |-> pos, Line |-> line, Decl |-> decl, Cmds |-> <<>>]
newAction(typ, pos, line, pipe) ==
    [Type |-> "NodeAction", Typ |-> typ, Pos |-> pos, Line |-> line, Pipe |-> pipe]
newChain(pos, node) == [Type |-> "NodeChain", Pos |-> pos, Node |-> node, Field |-> <<>>]

\* strings.Split(s, "."): the pieces of s between dots, at least one
RECURSIVE Split(_)
Split(s) ==
    LET i == Index(s, ".")
    IN  IF i < 0 THEN <<s>>
        ELSE <<Slice(s, 0, i)>> \o Split(From(s, i + 1))

newVariable(typ, pos, ident) ==
    [Type |-> "NodeVariable", Typ |-> typ, Pos |-> pos, Ident |-> Split(ident)]

----------------------------------------------------------------------------
(* parse.go: the Tree struct and the parser's state.                       *)
(*                                                                         *)
(* The parser is sequential and takes its input only through nextItem, so  *)
(* its state when it waits in nextItem is a function of the items it has   *)
(* taken.  The operators below are the parser's methods as functions on a  *)
(* record ps holding that state:                                           *)
(*   st       "run", or why control left the method: "wait" (blocked in    *)
(*            nextItem with no item to take), "errorf" (the panic of       *)
(*            Tree.errorf in flight), "rtpanic" (a runtime.Error panic in  *)
(*            flight), "strpanic" (a panic with a string value in flight), *)
(*            and after Tree.Parse: "ok", "err", "panic"                   *)
(*   in       the items taken from the channel and not yet read            *)
(*   t        the Tree that is the receiver; outer is the Tree of          *)
(*            Tree.parse while t is the newT of a section (inSection)      *)
(*   treeSet  the map from names to trees                                  *)
(*   ret      the value the last method returned                           *)
(*   list     the list local to itemList                                   *)
(*   sections for each parseSection that has returned, its Name and end    *)
(* A method applied when st is not "run" does nothing: control is not there*)
(***************************************************************************)

\* New(name).  id tells the Tree objects apart (the map holds pointers): 0 is
\* the Tree Parse is called on, k the newT of the k-th section.
New(name, id) ==
    [Name |-> name, ParseName |-> "", Root |-> NilNode,
     token |-> <<itemEmpty, itemEmpty, itemEmpty>>, peekCount |-> 0,
     variables |-> <<>>,
     history |-> <<itemEmpty, itemEmpty, itemEmpty>>, glanceCount |-> 0,
     lexSet |-> FALSE, id |-> id]

\* the parser's state when Tree.Parse is entered on New(name); args keeps the
\* arguments of the call
ParserStart(name, text, treeSet) ==
    [args |-> [name |-> name, text |-> text, treeSet |-> treeSet],
     st |-> "run", in |-> <<>>, text |-> text, lastPos |-> 0,
     t |-> New(name, 0), outer |-> NilNode, newT |-> NilNode, inSection |-> FALSE,
     nsect |-> 0, treeSet |-> treeSet, ret |-> NilNode, list |-> NilNode,
     sections |-> <<>>, elisions |-> <<>>, adds |-> <<>>, err |-> "", errName |-> "", errLine |-> 0,
     taken |-> 0, handed |-> <<>>, entered |-> <<>>]

\* the receive inside Tree.next and Tree.peek: t.token[0] = t.lex.nextItem()
Tree_nextItem(ps) ==
    IF ps.in = <<>> THEN [ps EXCEPT !.st = "wait"]
    ELSE [ps EXCEPT !.in = Tail(@), !.lastPos = Head(ps.in).pos,
                    !.t.token[1] = Head(ps.in), !.taken = @ + 1]

\* return t.token[i]; an index past the array is a runtime panic.  handed
\* records the item returned and the place in the tokenizer's stream where
\* the parser stands: the items taken less the i still to be read again.
Tree_token(ps, i) ==
    IF ps.st # "run" THEN ps
    ELSE IF i > 2 THEN [ps EXCEPT !.st = "rtpanic"]
    ELSE [ps EXCEPT !.ret = ps.t.token[i + 1],
                    !.handed = Append(@, [item |-> ps.t.token[i + 1], at |-> ps.taken - i])]

\* Tree.next
Tree_next(ps) ==
    IF ps.st # "run" THEN ps
    ELSE IF ps.t.peekCount > 0
         THEN Tree_token([ps EXCEPT !.t.peekCount = @ - 1], ps.t.peekCount - 1)
         ELSE Tree_token(Tree_nextItem(ps), 0)

\* Tree.backup
Tree_backup(ps) ==
    IF ps.st # "run" THEN ps ELSE [ps EXCEPT !.t.peekCount = @ + 1]

\* Tree.peek
Tree_peek(ps) ==
    IF ps.st # "run" THEN ps
    ELSE IF ps.t.peekCount > 0 THEN Tree_token(ps, ps.t.peekCount - 1)
    ELSE Tree_token(Tree_nextItem([ps EXCEPT !.t.peekCount = 1]), 0)

RECURSIVE Tree_nextNonSpace(_)

\* the loop of nextNonSpace, after n = the parser that has done token = t.next()
Tree_nextNonSpace_loop(n) ==
    IF n.st # "run" THEN n
    ELSE IF n.ret.typ # "itemSpace" THEN n
    ELSE Tree_nextNonSpace(n)

\* Tree.nextNonSpace
Tree_nextNonSpace(ps) == Tree_nextNonSpace_loop(Tree_next(ps))

\* Tree.peekNonSpace
Tree_peekNonSpace(ps) == Tree_backup(Tree_nextNonSpace(ps))

RECURSIVE Tree_nextCTag(_)

\* the loop of nextCTag, after n = the parser that has done token = t.next()
Tree_nextCTag_loop(n) ==
    IF n.st # "run" THEN n
    ELSE IF n.ret.typ = "itemCTag" THEN n
    ELSE Tree_nextCTag(n)

\* Tree.nextCTag
Tree_nextCTag(ps) == Tree_nextCTag_loop(Tree_next(ps))

\* lexer.lineNumber
lexer_lineNumber(ps) == 1 + CountNL(Slice(ps.text, 0, ps.lastPos))

\* Tree.errorf: msg is the format; the error is
\* "template: <ParseName>:<line>: <msg>"
Tree_errorf(ps, msg) ==
    IF ps.st # "run" THEN ps
    ELSE [ps EXCEPT !.t.Root = NilNode, !.st = "errorf", !.err = msg,
                    !.errName = ps.t.ParseName, !.errLine = lexer_lineNumber(ps)]

\* Tree.unexpected
Tree_unexpected(ps, token, context) ==
    Tree_errorf(ps, "unexpected %s in " \o context)

\* Tree.expect and Tree.expectOneOf after token := t.nextNonSpace()
Tree_expect_check(n, expected1, expected2, context) ==
    IF n.st # "run" THEN n
    ELSE IF n.ret.typ # expected1 /\ n.ret.typ # expected2
         THEN Tree_unexpected(n, n.ret, context)
    ELSE n

\* Tree.expect
Tree_expect(ps, expected, context) ==
    Tree_expect_check(Tree_nextNonSpace(ps), expected, expected, context)

\* Tree.expectOneOf
Tree_expectOneOf(ps, expected1, expected2, context) ==
    Tree_expect_check(Tree_nextNonSpace(ps), expected1, expected2, context)

\* Tree.startParse
Tree_startParse(ps) ==
    IF ps.st # "run" THEN ps ELSE [ps EXCEPT !.t.Root = NilNode, !.t.lexSet = TRUE]

\* *Tree t after stopParse; the map entry that points to t shows it too
Tree_stopParse(ps) ==
    LET t2 == [ps.t EXCEPT !.lexSet = FALSE, !.variables = <<>>]
    IN  [ps EXCEPT !.t = t2,
                   !.treeSet = [n \in DOMAIN ps.treeSet |->
                                   IF ps.treeSet[n].id = t2.id THEN t2 ELSE ps.treeSet[n]]]

\* Tree.addHistory
Tree_addHistory(ps, i) ==
    IF ps.st # "run" THEN ps
    ELSE LET h == ps.t.history
             g == ps.t.glanceCount
             h2 == IF g = 2 THEN [h EXCEPT ![3] = h[2]] ELSE h
             h1 == IF g >= 1 THEN [h2 EXCEPT ![2] = h2[1]] ELSE h2
         IN  [ps EXCEPT !.t.history = [h1 EXCEPT ![1] = i],
                        !.t.glanceCount = IF g < 2 THEN g + 1 ELSE g]

\* label elide of processComment and processDeltaDelimiter is reached: the
\* record of it (popRoot, and whether the look ahead found the tag standalone)
Tree_elision(ps, popRoot, trailing) ==
    [ps EXCEPT !.elisions = Append(@, [popRoot |-> popRoot, trailing |-> trailing,
                                       root |-> ps.t.Root])]

\* Tree.popRoot: t.Root.Nodes[0:len(t.Root.Nodes)-1]
Tree_popRoot(ps) ==
    IF ps.st # "run" THEN ps
    ELSE IF ps.t.Root = NilNode THEN [ps EXCEPT !.st = "rtpanic"]
    ELSE IF ps.t.Root.Nodes = <<>> THEN [ps EXCEPT !.st = "rtpanic"]
    ELSE [ps EXCEPT !.t.Root.Nodes = SubSeq(@, 1, Len(@) - 1)]

\* isOTag.  tagParent is not an item the lexer of lex.go (lines 1-605) emits.
isOTag(i) ==
    i \in {"tagEscaped", "tagUnescaped", "tagSection", "tagInverted", "tagPartial",
           "tagParent", "tagDeltaDelimiter"}

\* IsEmptyTree: "true", "false", or the panic it ends in.  n is NilNode for a
\* nil interface; for a list, range stops at the first node that decides.
RECURSIVE IsEmptyTree(_)
RECURSIVE IsEmptyNodes(_)
IsEmptyTree(n) ==
    CASE n = NilNode -> "true"
      [] n.Type = "NodeAction" -> "false"
      [] n.Type = "NodeList" -> IsEmptyNodes(n.Nodes)
      [] n.Type = "NodeText" -> IF Len(TrimSpace(n.Text)) = 0 THEN "true" ELSE "false"
      [] OTHER -> "strpanic"

IsEmptyNodes(nodes) ==
    IF nodes = <<>> THEN "true"
    ELSE LET e == IsEmptyTree(Head(nodes))
         IN  IF e = "true" THEN IsEmptyNodes(Tail(nodes)) ELSE e

\* IsEmptyTree(tree.Root) with Root a *ListNode: a nil Root is a non-nil
\* interface holding a nil pointer, and n.Nodes dereferences it
IsEmptyRoot(root) == IF root = NilNode THEN "rtpanic" ELSE IsEmptyTree(root)

\* the end of a call of add: the record of it (what the map held under the
\* name, and how the call ended)
Tree_added(ps, existing, outcome) ==
    [ps EXCEPT !.adds = Append(@, [Name |-> ps.t.Name, existing |-> existing,
                                   outcome |-> outcome])]

\* Tree.add
Tree_add(ps) ==
    LET name == ps.t.Name
        has == name \in DOMAIN ps.treeSet
        e1 == IF has THEN IsEmptyRoot(ps.treeSet[name].Root) ELSE "true"
        e2 == IsEmptyRoot(ps.t.Root)
        existing == IF has THEN e1 ELSE "absent"
    IN  IF ps.st # "run" THEN ps
        ELSE IF e1 = "true"
             THEN [Tree_added(ps, existing, "stored")
                     EXCEPT !.treeSet = [n \in DOMAIN ps.treeSet \cup {name} |->
                                             IF n = name THEN ps.t ELSE ps.treeSet[n]]]
        ELSE IF e1 # "false" THEN [Tree_added(ps, existing, "panic") EXCEPT !.st = e1]
        ELSE IF e2 = "false"
             THEN Tree_errorf(Tree_added(ps, existing, "error"),
                              "template: multiple definition of template %q")
        ELSE IF e2 # "true" THEN [Tree_added(ps, existing, "panic") EXCEPT !.st = e2]
        ELSE Tree_added(ps, existing, "kept")

\* processComment, label elide: if popRoot { t.popRoot() }
Tree_processComment_elide(ps, popRoot, trailing) ==
    IF ps.st # "run" THEN ps
    ELSE IF popRoot THEN Tree_popRoot(Tree_elision(ps, popRoot, trailing))
    ELSE Tree_elision(ps, popRoot, trailing)

\* processComment, "if nxt1.typ == itemCR" after the first t.next(): b has done t.peek()
Tree_processComment_afterCR(b, popRoot) ==
    IF b.st # "run" THEN b
    ELSE IF b.ret.typ = "itemNL" THEN Tree_processComment_elide(Tree_next(b), popRoot, TRUE)
    ELSE Tree_processComment_elide(b, popRoot, TRUE)

\* processComment from "t.next(); nxt2 := t.peek()": b has done both
Tree_processComment_second(b, nxt1, popRoot) ==
    IF b.st # "run" THEN b
    ELSE IF nxt1.typ = "itemSpace" /\ b.ret.typ = "itemNL"
         THEN Tree_processComment_elide(Tree_next(b), popRoot, TRUE)
    ELSE Tree_processComment_elide(Tree_backup(b), popRoot, FALSE)

\* processComment from "nxt1 := t.peek()": p1 has done it
Tree_processComment_first(p1, popRoot) ==
    IF p1.st # "run" THEN p1
    ELSE IF p1.ret.typ = "EOF" THEN Tree_processComment_elide(p1, popRoot, TRUE)
    ELSE IF p1.ret.typ = "itemNL" THEN Tree_processComment_elide(Tree_next(p1), popRoot, TRUE)
    ELSE IF p1.ret.typ = "itemCR" THEN Tree_processComment_afterCR(Tree_peek(Tree_next(p1)), popRoot)
    ELSE Tree_processComment_second(Tree_peek(Tree_next(p1)), p1.ret, popRoot)

\* processComment from label skipInternal: c has done t.nextCTag()
Tree_processComment_ahead(c, standalone, popRoot) ==
    IF standalone THEN Tree_processComment_first(Tree_peek(c), popRoot) ELSE Tree_processComment_elide(c, popRoot, FALSE)

\* Tree.processComment: the look back sets standalone and popRoot
Tree_processComment(ps) ==
    LET h == ps.t.history
        pre == h[2].typ = "itemSpace" /\ h[3].typ # "itemNL" /\ h[3] # itemEmpty
        standalone == IF ps.t.glanceCount = 0 THEN TRUE
                      ELSE IF h[2].typ = "itemSpace" THEN ~pre
                      ELSE h[2].typ = "itemNL"
        popRoot == ps.t.glanceCount # 0 /\ h[2].typ = "itemSpace" /\ ~pre
    IN  IF ps.st # "run" THEN ps
        ELSE Tree_processComment_ahead(Tree_nextCTag(ps), standalone, popRoot)

\* processDeltaDelimiter, label elide: if popRoot { t.popRoot() }
Tree_processDeltaDelimiter_elide(ps, popRoot, trailing) ==
    IF ps.st # "run" THEN ps
    ELSE IF popRoot THEN Tree_popRoot(Tree_elision(ps, popRoot, trailing))
    ELSE Tree_elision(ps, popRoot, trailing)

\* processDeltaDelimiter, "if nxt1.typ == itemCR" after the first t.next(): b has done t.peek()
Tree_processDeltaDelimiter_afterCR(b, popRoot) ==
    IF b.st # "run" THEN b
    ELSE IF b.ret.typ = "itemNL" THEN Tree_processDeltaDelimiter_elide(Tree_next(b), popRoot, TRUE)
    ELSE Tree_processDeltaDelimiter_elide(b, popRoot, TRUE)

\* A processDeltaDelimiter without the test for a space and a newline after
\* the tag: the item taken is given back whatever follows.
Tree_processDeltaDelimiter_second_inline(b, nxt1, popRoot) ==
    IF b.st # "run" THEN b
    ELSE Tree_processDeltaDelimiter_elide(Tree_backup(b), popRoot, FALSE)

\* processDeltaDelimiter from "t.next(); nxt2 := t.peek()": b has done both
Tree_processDeltaDelimiter_second(b, nxt1, popRoot) ==
    IF b.st # "run" THEN b
    ELSE IF nxt1.typ = "itemSpace" /\ b.ret.typ = "itemNL"
         THEN Tree_processDeltaDelimiter_elide(Tree_next(b), popRoot, TRUE)
    ELSE Tree_processDeltaDelimiter_elide(Tree_backup(b), popRoot, FALSE)

\* processDeltaDelimiter from "nxt1 := t.peek()": p1 has done it
Tree_processDeltaDelimiter_first(p1, popRoot) ==
    IF p1.st # "run" THEN p1
    ELSE IF p1.ret.typ = "EOF" THEN Tree_processDeltaDelimiter_elide(p1, popRoot, TRUE)
    ELSE IF p1.ret.typ = "itemNL" THEN Tree_processDeltaDelimiter_elide(Tree_next(p1), popRoot, TRUE)
    ELSE IF p1.ret.typ = "itemCR" THEN Tree_processDeltaDelimiter_afterCR(Tree_peek(Tree_next(p1)), popRoot)
    ELSE Tree_processDeltaDelimiter_second(Tree_peek(Tree_next(p1)), p1.ret, popRoot)

\* processDeltaDelimiter from label skipInternal: c has done t.nextCTag()
Tree_processDeltaDelimiter_ahead(c, standalone, popRoot) ==
    IF standalone THEN Tree_processDeltaDelimiter_first(Tree_peek(c), popRoot) ELSE Tree_processDeltaDelimiter_elide(c, popRoot, FALSE)

\* Tree.processDeltaDelimiter: the look back sets standalone and popRoot
Tree_processDeltaDelimiter(ps) ==
    LET h == ps.t.history
        pre == h[2].typ = "itemSpace" /\ h[3].typ # "itemNL" /\ h[3] # itemEmpty
        standalone == IF ps.t.glanceCount = 0 THEN TRUE
                      ELSE IF h[2].typ = "itemSpace" THEN ~pre
                      ELSE h[2].typ = "itemNL"
        popRoot == ps.t.glanceCount # 0 /\ h[2].typ = "itemSpace" /\ ~pre
    IN  IF ps.st # "run" THEN ps
        ELSE Tree_processDeltaDelimiter_ahead(Tree_nextCTag(ps), standalone, popRoot)

\* Tree.useVar
Tree_useVar(ps, typ, pos, name) ==
    LET v == newVariable(typ, pos, name)
    IN  IF ps.st # "run" THEN ps
        ELSE IF \E i \in 1..Len(ps.t.variables) : ps.t.variables[i] = v.Ident[1]
             THEN [ps EXCEPT !.ret = v]
        ELSE Tree_errorf(ps, "undefined variable %q")

\* Tree.term after token := t.nextNonSpace()
Tree_term_switch(n) ==
    IF n.st # "run" THEN n
    ELSE IF n.ret.typ = "ERROR" THEN Tree_errorf(n, n.ret.value)
    ELSE IF n.ret.typ \in {"identEscaped", "identUnescaped"}
         THEN Tree_useVar(n, IF n.ret.typ = "identEscaped" THEN "tagEscaped" ELSE "tagUnescaped",
                          n.ret.pos, n.ret.value)
    ELSE [Tree_backup(n) EXCEPT !.ret = NilNode]

\* Tree.term
Tree_term(ps) == Tree_term_switch(Tree_nextNonSpace(ps))

\* VariableNode.String and the fields of ChainNode.String
RECURSIVE JoinDots(_)
JoinDots(ids) ==
    IF Len(ids) = 0 THEN ""
    ELSE IF Len(ids) = 1 THEN ids[1]
    ELSE ids[1] \o "." \o JoinDots(Tail(ids))

\* the loop of operand that gathers a chain (p has done t.peek()):
\* ChainNode.Add panics with a string when the field does not start with a
\* dot or is only a dot
RECURSIVE Tree_operand_chain(_, _)
Tree_operand_chain(p, chain) ==
    LET field == Tree_next(p).ret.value
    IN  IF p.st # "run" THEN p
        ELSE IF p.ret.typ \in {"identEscaped", "identUnescaped"}
             THEN IF Len(field) = 0 \/ SubSeq(field, 1, 1) # "." \/ Len(field) = 1
                  THEN [Tree_next(p) EXCEPT !.st = "strpanic"]
                  ELSE Tree_operand_chain(Tree_peek(Tree_next(p)),
                                          [chain EXCEPT !.Field = Append(@, From(field, 1))])
        ELSE [p EXCEPT !.ret = newVariable("identEscaped", chain.Pos,
                                           JoinDots(chain.Node.Ident \o chain.Field))]

\* Tree.operand after token := t.peek(), node being the term
Tree_operand_peeked(p, node) ==
    IF p.st # "run" THEN p
    ELSE IF p.ret.typ \in {"identEscaped", "identUnescaped"}
         THEN Tree_operand_chain(p, newChain(p.ret.pos, node))
    ELSE [p EXCEPT !.ret = node]

\* Tree.operand after node := t.term()
Tree_operand_termed(tm) ==
    IF tm.st # "run" THEN tm
    ELSE IF tm.ret = NilNode THEN tm
    ELSE Tree_operand_peeked(Tree_peek(tm), tm.ret)

\* Tree.operand
Tree_operand(ps) == Tree_operand_termed(Tree_term(ps))

\* Tree.command after its loop: if len(cmd.Args) == 0 ... return cmd
Tree_command_done(ps, cmd) ==
    IF cmd.Args = <<>> THEN Tree_errorf(ps, "empty command") ELSE [ps EXCEPT !.ret = cmd]

RECURSIVE Tree_command_loop(_, _)

\* the switch in the loop of command: n has done token := t.next()
Tree_command_switch(n, cmd) ==
    IF n.st # "run" THEN n
    ELSE CASE n.ret.typ = "itemSpace" -> Tree_command_loop(n, cmd)
           [] n.ret.typ = "ERROR" -> Tree_errorf(n, n.ret.value)
           [] n.ret.typ = "itemCTag" -> Tree_command_done(Tree_backup(n), cmd)
           [] n.ret.typ = "itemPipe" ->
                Tree_errorf(n, "itemPipe in command, not implemented: parse.goL708")
           [] n.ret.typ \in {"identEscaped", "identUnescaped"} -> Tree_command_done(n, cmd)
           [] OTHER -> Tree_errorf(n, "unexpected %s in operand; missing space?")

\* the loop of command after operand := t.operand()
Tree_command_operand(o, cmd) ==
    Tree_command_switch(Tree_next(o),
                        IF o.st = "run" /\ o.ret # NilNode
                        THEN [cmd EXCEPT !.Args = Append(@, o.ret)] ELSE cmd)

\* the for loop of command
Tree_command_loop(ps, cmd) ==
    Tree_command_operand(Tree_operand(Tree_peekNonSpace(ps)), cmd)

\* Tree.command after t.peekNonSpace()
Tree_command_start(p) ==
    IF p.st # "run" THEN p ELSE Tree_command_loop(p, newCommand(p.ret.pos))

\* Tree.command
Tree_command(ps) == Tree_command_start(Tree_peekNonSpace(ps))

RECURSIVE Tree_pipeline_loop(_, _, _)

\* pipe.append(t.command()): c has done t.command()
Tree_pipeline_append(c, pipe, context) ==
    IF c.st # "run" THEN c
    ELSE Tree_pipeline_loop(c, [pipe EXCEPT !.Cmds = Append(@, c.ret)], context)

\* A switch of pipeline whose case itemCTag has no check of len(pipe.Cmds).
Tree_pipeline_switch_unchecked(n, pipe, context) ==
    IF n.st # "run" THEN n
    ELSE IF n.ret.typ = "itemCTag" THEN [Tree_backup(n) EXCEPT !.ret = pipe]
    ELSE IF n.ret.typ \in {"identEscaped", "identUnescaped", "itemIdentifier"}
         THEN Tree_pipeline_append(Tree_command(Tree_backup(n)), pipe, context)
    ELSE Tree_unexpected(n, n.ret, context)

\* the switch in the second loop of pipeline: n has done token := t.nextNonSpace()
Tree_pipeline_switch(n, pipe, context) ==
    IF n.st # "run" THEN n
    ELSE IF n.ret.typ = "itemCTag"
         THEN IF pipe.Cmds = <<>> THEN Tree_errorf(n, "missing value for " \o context)
              ELSE [Tree_backup(n) EXCEPT !.ret = pipe]
    ELSE IF n.ret.typ \in {"identEscaped", "identUnescaped", "itemIdentifier"}
         THEN Tree_pipeline_append(Tree_command(Tree_backup(n)), pipe, context)
    ELSE Tree_unexpected(n, n.ret, context)

\* the second for loop of pipeline
Tree_pipeline_loop(ps, pipe, context) ==
    Tree_pipeline_switch(Tree_nextNonSpace(ps), pipe, context)

\* Tree.pipeline from "pipe = newPipeline(...)": d is the parser after the
\* declarations
Tree_pipeline_declared(d, pos, decl, context) ==
    Tree_pipeline_loop(Tree_peekNonSpace(d), newPipeline(pos, lexer_lineNumber(d), decl),
                       context)

\* Tree.pipeline after "t.next(); pos := t.peekNonSpace().pos"
Tree_pipeline_start(p0, context) ==
    LET isDecl == p0.ret.typ \in {"identEscaped", "identUnescaped"}
    IN  IF p0.st # "run" THEN p0
        ELSE Tree_pipeline_declared(
                 IF isDecl
                 THEN Tree_backup([Tree_nextNonSpace(p0) EXCEPT
                                      !.t.variables = Append(@, p0.ret.value)])
                 ELSE p0,
                 p0.ret.pos,
                 IF isDecl THEN <<newVariable(p0.ret.typ, p0.ret.pos, p0.ret.value)>>
                 ELSE <<>>,
                 context)

\* Tree.pipeline
Tree_pipeline(ps, context) == Tree_pipeline_start(Tree_peekNonSpace(Tree_next(ps)), context)

\* Tree.endSectionControl after t.expect(itemCTag, t.Name)
Tree_endSectionControl_closed(e, item) ==
    IF e.st # "run" THEN e ELSE [e EXCEPT !.ret = newEnd(e.ret.pos, item.value)]

\* Tree.endSectionControl after item := t.next()
Tree_endSectionControl_named(i) ==
    Tree_endSectionControl_closed(Tree_expect(i, "itemCTag", i.t.Name), i.ret)

\* Tree.endSectionControl
Tree_endSectionControl(ps) == Tree_endSectionControl_named(Tree_next(ps))

\* Tree.partialControl after t.peek()
Tree_partialControl_peeked(p) ==
    IF p.st # "run" THEN p ELSE [p EXCEPT !.ret = newPartial(p.ret.pos, p.ret.value)]

\* Tree.partialControl
Tree_partialControl(ps) == Tree_partialControl_peeked(Tree_peek(ps))

\* "return nil" in action and textOrAction
Tree_return_nil(ps) == IF ps.st # "run" THEN ps ELSE [ps EXCEPT !.ret = NilNode]

\* the return of action after t.pipeline("command")
Tree_action_piped(pl, typ, pos, line) ==
    IF pl.st # "run" THEN pl ELSE [pl EXCEPT !.ret = newAction(typ, pos, line, pl.ret)]

\* the return of action after "t.backup()" and t.peek()
Tree_action_backed(b, typ) ==
    IF b.st # "run" THEN b
    ELSE Tree_action_piped(Tree_pipeline(b, "command"), typ, b.ret.pos, lexer_lineNumber(b))

\* the parser as it enters processComment or processDeltaDelimiter, kept in
\* entered (the logs left out)
Tree_enter(ps) ==
    [ps EXCEPT !.entered = Append(@, [ps EXCEPT !.entered = <<>>, !.handed = <<>>])]

\* Tree.action
Tree_action(ps) ==
    LET token == ps.t.history[1]
    IN  IF ps.st # "run" THEN ps
        ELSE CASE token.typ = "itemDiscard" -> Tree_return_nil(ps)
               [] token.typ = "tagComment" -> Tree_return_nil(Tree_processComment(Tree_enter(ps)))
               [] token.typ = "tagEndSection" -> Tree_endSectionControl(ps)
               [] token.typ = "tagPartial" -> Tree_partialControl(ps)
               [] token.typ = "tagDeltaDelimiter" ->
                    Tree_return_nil(Tree_processDeltaDelimiter(Tree_enter(ps)))
               [] OTHER -> Tree_action_backed(Tree_peek(Tree_backup(ps)), token.typ)

\* the switch of textOrAction: h has done t.addHistory(token)
Tree_textOrAction_switch(h, token) ==
    CASE token.typ = "itemText" -> [h EXCEPT !.ret = newText(token.pos, token.value)]
      [] token.typ = "itemSpace" -> [h EXCEPT !.ret = newSpace(token.pos, token.value)]
      [] token.typ = "itemNL" -> [h EXCEPT !.ret = newNL(token.pos, token.value)]
      [] token.typ = "itemCR" -> [h EXCEPT !.ret = newCR(token.pos, token.value)]
      [] token.typ \in {"itemDiscard", "itemCTag"} -> [h EXCEPT !.ret = NilNode]
      [] OTHER -> Tree_action(h)

\* Tree.textOrAction after token := t.next()
Tree_textOrAction_taken(n) ==
    IF n.st # "run" THEN n ELSE Tree_textOrAction_switch(Tree_addHistory(n, n.ret), n.ret)

\* Tree.textOrAction
Tree_textOrAction(ps) == Tree_textOrAction_taken(Tree_next(ps))

RECURSIVE Tree_itemList_loop(_)

\* the loop of itemList with the end marker appended to the list before the
\* return
Tree_itemList_keeps_end(a) ==
    IF a.st # "run" THEN a
    ELSE IF a.ret = NilNode THEN [a EXCEPT !.st = "rtpanic"]
    ELSE IF a.ret.Type = "NodeEnd" THEN [a EXCEPT !.list.Nodes = Append(@, a.ret)]
    ELSE Tree_itemList_loop([a EXCEPT !.list.Nodes = Append(@, a.ret)])

\* the loop of itemList after n := t.textOrAction(); n.Type() on the nil that
\* textOrAction returns for a comment, a delimiter change or a close tag is a
\* nil dereference
Tree_itemList_node(a) ==
    IF a.st # "run" THEN a
    ELSE IF a.ret = NilNode THEN [a EXCEPT !.st = "rtpanic"]
    ELSE IF a.ret.Type = "NodeEnd" THEN a
    ELSE Tree_itemList_loop([a EXCEPT !.list.Nodes = Append(@, a.ret)])

\* the loop of itemList after t.peekNonSpace(), and the errorf after the loop
Tree_itemList_peeked(p) ==
    IF p.st # "run" THEN p
    ELSE IF p.ret.typ = "EOF" THEN Tree_errorf(p, "unexpected EOF")
    ELSE Tree_itemList_node(Tree_textOrAction(p))

\* the for loop of itemList
Tree_itemList_loop(ps) == Tree_itemList_peeked(Tree_peekNonSpace(ps))

\* Tree.itemList after t.peekNonSpace()
Tree_itemList_start(p) ==
    IF p.st # "run" THEN p ELSE Tree_itemList_loop([p EXCEPT !.list = newList(p.ret.pos)])

\* Tree.itemList: list is in ps.list, next in ps.ret
Tree_itemList(ps) == Tree_itemList_start(Tree_peekNonSpace(ps))

\* Tree.parseSection after t.add(treeSet)
Tree_parseSection_added(ad, end) ==
    IF ad.st # "run" THEN ad
    ELSE [Tree_stopParse(ad) EXCEPT
             !.sections = Append(@, [Name |-> ad.t.Name, end |-> end.Name])]

\* Tree.parseSection after "t.Root, end = t.itemList()"
Tree_parseSection_listed(il) ==
    IF il.st # "run" THEN il
    ELSE IF il.ret.Type # "NodeEnd"
         THEN Tree_errorf([il EXCEPT !.t.Root = il.list], "unexpected %s in section")
    ELSE Tree_parseSection_added(Tree_add([il EXCEPT !.t.Root = il.list]), il.ret)

\* Tree.parseSection after t.expectOneOf(itemDiscard, itemIdentifier, context)
Tree_parseSection_named(e1) ==
    IF e1.st # "run" THEN e1
    ELSE Tree_parseSection_listed(
             Tree_itemList(Tree_expect([e1 EXCEPT !.t.Name = e1.ret.value],
                                       "itemCTag", "section")))

\* Tree.parseSection
Tree_parseSection(ps) ==
    Tree_parseSection_named(Tree_expectOneOf(ps, "itemDiscard", "itemIdentifier", "section"))

\* the Tree that Parse was called on as the receiver again, when the receiver
\* is the newT of a section
Tree_receiver(ps) ==
    IF ps.inSection
    THEN [ps EXCEPT !.t = ps.outer, !.newT = ps.t, !.outer = NilNode, !.inSection = FALSE]
    ELSE ps

\* parse after newT.parseSection(treeSet): continue
Tree_parse_sectionDone(s) == IF s.st # "run" THEN s ELSE Tree_receiver(s)

\* the body of "if tag.typ == tagInverted || tag.typ == tagSection" in parse:
\* newT := New("section"); newT.startParse(t.funcs, t.lex); newT.parseSection(treeSet)
Tree_parse_section(ps) ==
    IF ps.st # "run" THEN ps
    ELSE Tree_parse_sectionDone(Tree_parseSection(Tree_startParse(
             [ps EXCEPT !.outer = ps.t, !.t = New("section", ps.nsect + 1),
                        !.inSection = TRUE, !.nsect = ps.nsect + 1])))

RECURSIVE Tree_parse_loop(_)

\* the loop of parse after n := t.textOrAction()
Tree_parse_node(a) ==
    IF a.st # "run" THEN a
    ELSE IF a.ret = NilNode THEN Tree_parse_loop(a)
    ELSE IF a.ret.Type = "NodeEnd" THEN Tree_errorf(a, "zunexpected %s\n")
    ELSE Tree_parse_loop([a EXCEPT !.t.Root.Nodes = Append(@, a.ret)])

\* the loop of parse after t.peek(): tag is t.next(), taken when it is an oTag
\* and backed up when it does not open a section
Tree_parse_peeked(p) ==
    LET tag == Tree_next(p)
    IN  IF p.st # "run" THEN p
        ELSE IF p.ret.typ = "EOF" THEN p
        ELSE IF isOTag(p.ret.typ) /\ tag.ret.typ \in {"tagInverted", "tagSection"}
             THEN Tree_parse_loop(Tree_parse_section(tag))
        ELSE Tree_parse_node(Tree_textOrAction(
                 IF isOTag(p.ret.typ) THEN Tree_backup(tag) ELSE p))

\* the for loop of parse
Tree_parse_loop(ps) == Tree_parse_peeked(Tree_peek(ps))

\* Tree.parse after t.peek()
Tree_parse_start(p) ==
    IF p.st # "run" THEN p ELSE Tree_parse_loop([p EXCEPT !.t.Root = newList(p.ret.pos)])

\* Tree.parse
Tree_parse(ps) == Tree_parse_start(Tree_peek(ps))

\* Tree.recover, deferred by Tree.Parse on the Tree it was called on: a
\* runtime.Error is raised again; otherwise stopParse, and *errp = e.(error),
\* which for a panic value that is a string is itself a runtime panic
Tree_recover(ps) ==
    CASE ps.st = "rtpanic" -> [Tree_receiver(ps) EXCEPT !.st = "panic"]
      [] ps.st = "errorf" -> [Tree_stopParse(Tree_receiver(ps)) EXCEPT !.st = "err"]
      [] ps.st = "strpanic" -> [Tree_stopParse(Tree_receiver(ps)) EXCEPT !.st = "panic"]
      [] OTHER -> ps

\* Tree.Parse from t.stopParse() on, or its deferred recover
Tree_Parse_end(a) ==
    IF a.st = "run" THEN [Tree_stopParse(a) EXCEPT !.st = "ok"] ELSE Tree_recover(a)

\* Tree.Parse, on the items taken so far: st is "ok" for (t, nil), "err" for
\* (nil, err), "panic" for a panic that leaves Parse, "wait" while blocked
Tree_Parse(ps) ==
    Tree_Parse_end(Tree_add(Tree_parse(Tree_startParse([ps EXCEPT !.t.ParseName = ps.t.Name]))))

\* the parser of a call after it has taken the items toks
Parser(c, toks) ==
    Tree_Parse([ParserStart(c.name, c.text, c.treeSet) EXCEPT !.in = toks, !.args = c])

----------------------------------------------------------------------------
(* Inputs *)

Frags == {"a", " ", "\n", "{{!c}}", "{{x}}", "{{#a}}", "{{/a}}", "{{", "{{>p}}", "{{=| |=}}"}

RECURSIVE Texts(_)
Texts(n) ==
    IF n = 0 THEN {""}
    ELSE {""} \cup {f \o t : f \in Frags, t \in Texts(n - 1)}

\* texts of the documentation and of the tests, and texts of interest
Named ==
    {"{{#list}}{{item}}{{/list}}", "{{>name}}", "{{!comment}}\n", "{{#a}}{{/b}}",
     "I'm {{>partial}}", "{{=<% %>=}}<%foo%>", "{{#a}}{{#b}}x{{/b}}{{/a}}",
     "{{#a}} x {{/a}}", "{{^a}}x{{/a}}", "{{{x}}}", "{{&x}}", "{{a.b}}",
     "{{}}a a a", "{{!c", "{{x", "{{#a", "{{>p", "{{=", "{{=<%%>=}}", "{{=<% %>}}",
     "{{=| |=}} |x|", "a\r\n{{!c}}\r\nb", "a\n {{!c}} \nb", " {{!c}}x", "\n{{!c}}x y",
     "{{#a}}x{{/a}}{{#a}}y{{/a}}", "x{{y}}\n{{z}}", "{{=\n =}}", "{{/a", "a {{!c}}",
     "{{}}", "a{{}}", "{{&}}", "{{#a}}{{}}{{/a}}",
     "\n{{!c}}\n{{!c}}\n", "a\n{{!c}}\n{{=| |=}}\nb", "a\n{{!c}} \nb", "a\n{{!c}}\r\nb",
     "a\n{{!c}}\rb", "a\n{{!c}} \rb", "a\n{{!c}}\n\nb", "a\n{{!c}} b", "a\n{{!c}}  \nb",
     "a\n{{!c}}\nb", "a\n{{!c}}b", "a\n{{=| |=}} \rb", "a\n{{=| |=}}\r\nb", "a\n{{!c}}\t\nb",
     "{{#}}", "{{/}}", "{{^}}", "{{!}}", "{{>}}", "{{{}}}", "{{=| |=}}|#|", "{{=| |=}}||",
     "{{=| | }}=", "{{=<%%>=}} x=", "{{=| =}}", "{{=| =}}x", " {{#a}}x{{/a}}{{!c}}", "{{#a}} {{!c}}\n{{/a}}", "a\n {{!c}} \n{{=| |=}}\nb", "{{= | | =}}|x|", "{{=| |}}"}

\* a tree with a root that is not empty, as an earlier Parse leaves it in the map
Defined(name) ==
    [New(name, 9) EXCEPT !.ParseName = name,
                         !.Root = [newList(0) EXCEPT !.Nodes = <<newText(0, "x")>>]]

\* Parse (package level): a new map, t := New(name), and
\* t.Parse(text, OTag, CTag, treeSet); the oTag and cTag given are not used
Parse(name, text, oTag, cTag) ==
    [name |-> name, text |-> text, left |-> OTag, right |-> CTag, treeSet |-> <<>>,
     via |-> "Parse", oTag |-> oTag, cTag |-> cTag]

\* a call of Tree.Parse(text, left, right, treeSet) on New(name)
TreeParse(name, text, left, right, treeSet) ==
    [name |-> name, text |-> text, left |-> left, right |-> right, treeSet |-> treeSet,
     via |-> "Tree.Parse", oTag |-> left, cTag |-> right]

\* the calls modelled: Tree.Parse(text, left, right, treeSet) on New(name)
Calls ==
    {Parse("root", t, "<%", "%>") : t \in Named \cup {"<%x%>", "<%x%>{{y}}", "a"}}
    \cup
    {TreeParse("root", t, "", "", <<>>) : t \in Texts(MaxFrags) \cup Named}
    \cup
    {TreeParse("root", t, "$$", "@@", <<>>) :
        t \in {"$$x@@ {{x}}", "$$,@%{{}}@@", "$$@@", "{{x}}$$y@@", "a}}$$@@{{", "$${{}}"}}
    \cup
    {TreeParse("root", t, "<%", "%>", <<>>) :
        t \in {"<%%>", "<%x%>{{y}}", "{{!c}}\n<%#a%>{{<%/a%>"}}
    \cup
    {TreeParse("root", t, "", "", [n \in {"root"} |-> Defined("root")]) : t \in {"", " ", "a"}}

----------------------------------------------------------------------------
(* node.go (src/unnamed/part_001): the nodes as Go holds them, and Copy.   *)
(*                                                                         *)
(* A heap is a sequence of cells and an address is an index in it; 0 is    *)
(* nil.  The struct behind a node pointer is a cell [k, n]: k is the       *)
(* pointer type, n the fields of the struct, a slice field or a pointer    *)
(* field holding an address.  The backing array of a slice is a cell       *)
(* [k, v]: k is the slice type and v the elements (a string for []byte,    *)
(* addresses for a slice of nodes).  An operator that allocates returns    *)
(* [h, a], the heap it leaves and the address it returns; a loop over      *)
(* nodes returns [h, v], v the addresses it has gathered.                  *)

\* &T{...}, []byte(s), append([]T{}, s...): a new cell
Alloc(h, cell) == [h |-> Append(h, cell), a |-> Len(h) + 1]

\* the slice a loop of appends leaves: nil when nothing was appended
NewSlice(h, k, v) == IF Len(v) = 0 THEN [h |-> h, a |-> 0] ELSE Alloc(h, [k |-> k, v |-> v])

\* the elements of the slice at address s
Elems(h, s) == IF s = 0 THEN <<>> ELSE h[s].v

\* the struct type of the nodes of a kind
StructOf(type) ==
    CASE type = "NodeText" -> "*TextNode"
      [] type = "NodeNL" -> "*NLNode"
      [] type = "NodeCR" -> "*CRNode"
      [] type = "NodeSpace" -> "*SpaceNode"
      [] type = "NodePartial" -> "*PartialNode"
      [] type = "NodeEnd" -> "*endNode"
      [] type = "NodeVariable" -> "*VariableNode"
      [] type = "NodeList" -> "*ListNode"
      [] type = "NodeCommand" -> "*CommandNode"
      [] type = "NodePipe" -> "*PipeNode"
      [] type = "NodeAction" -> "*ActionNode"
      [] type = "NodeChain" -> "*ChainNode"

\* the fields of a struct that hold a slice or a pointer
PointerFields(k) ==
    CASE k \in {"*TextNode", "*NLNode", "*CRNode", "*SpaceNode"} -> {"Text"}
      [] k = "*VariableNode" -> {"Ident"}
      [] k = "*ListNode" -> {"Nodes"}
      [] k = "*CommandNode" -> {"Args"}
      [] k = "*PipeNode" -> {"Decl", "Cmds"}
      [] k = "*ActionNode" -> {"Pipe"}
      [] k = "*ChainNode" -> {"Node", "Field"}
      [] OTHER -> {}

\* The constructors with their allocations: the node n, as the parser's
\* operators above build it, laid out in the heap.
RECURSIVE Store(_, _)
RECURSIVE StoreElems(_, _, _)
Store(h, n) ==
    LET k == StructOf(n.Type)
    IN  CASE n = NilNode -> [h |-> h, a |-> 0]
          [] k \in {"*TextNode", "*NLNode", "*CRNode", "*SpaceNode"} ->
                LET b == Alloc(h, [k |-> "[]byte", v |-> n.Text])
                IN  Alloc(b.h, [k |-> k, n |-> [n EXCEPT !.Text = b.a]])
          [] k \in {"*PartialNode", "*endNode"} -> Alloc(h, [k |-> k, n |-> n])
          [] k = "*VariableNode" ->
                LET s == Alloc(h, [k |-> "[]string", v |-> n.Ident])
                IN  Alloc(s.h, [k |-> k, n |-> [n EXCEPT !.Ident = s.a]])
          [] k = "*ListNode" ->
                LET e == StoreElems(h, n.Nodes, <<>>)
                    s == NewSlice(e.h, "[]Node", e.v)
                IN  Alloc(s.h, [k |-> k, n |-> [n EXCEPT !.Nodes = s.a]])
          [] k = "*CommandNode" ->
                LET e == StoreElems(h, n.Args, <<>>)
                    s == NewSlice(e.h, "[]Node", e.v)
                IN  Alloc(s.h, [k |-> k, n |-> [n EXCEPT !.Args = s.a]])
          [] k = "*PipeNode" ->
                LET d == StoreElems(h, n.Decl, <<>>)
                    ds == NewSlice(d.h, "[]*VariableNode", d.v)
                    c == StoreElems(ds.h, n.Cmds, <<>>)
                    cs == NewSlice(c.h, "[]*CommandNode", c.v)
                IN  Alloc(cs.h, [k |-> k, n |-> [n EXCEPT !.Decl = ds.a, !.Cmds = cs.a]])
          [] k = "*ActionNode" ->
                LET p == Store(h, n.Pipe)
                IN  Alloc(p.h, [k |-> k, n |-> [n EXCEPT !.Pipe = p.a]])
          [] k = "*ChainNode" ->
                LET c == Store(h, n.Node)
                    f == NewSlice(c.h, "[]string", n.Field)
                IN  Alloc(f.h, [k |-> k, n |-> [n EXCEPT !.Node = c.a, !.Field = f.a]])

StoreElems(h, nodes, acc) ==
    IF nodes = <<>> THEN [h |-> h, v |-> acc]
    ELSE CHOOSE r \in {StoreElems(s.h, Tail(nodes), Append(acc, s.a)) :
                          s \in {Store(h, Head(nodes))}} : TRUE

\* append([]byte{}, t.Text...), append([]string{}, v.Ident...): a new backing
\* array with the elements of the slice at s (none for a nil slice)
CopySlice(h, k, s) == Alloc(h, [k |-> k, v |-> IF s = 0 THEN <<>> ELSE h[s].v])

\* Copy of the node at address a: the method of its struct type
RECURSIVE Copy(_, _)
RECURSIVE CopyElems(_, _, _)

\* ListNode.CopyList
ListNode_CopyList(h, a) ==
    IF a = 0 THEN [h |-> h, a |-> 0]
    ELSE LET e == CopyElems(h, Elems(h, h[a].n.Nodes), <<>>)
             s == NewSlice(e.h, "[]Node", e.v)
         IN  Alloc(s.h, [k |-> "*ListNode", n |-> [newList(h[a].n.Pos) EXCEPT !.Nodes = s.a]])

\* PipeNode.CopyPipe
PipeNode_CopyPipe(h, a) ==
    IF a = 0 THEN [h |-> h, a |-> 0]
    ELSE LET p == h[a].n
             d == CopyElems(h, Elems(h, p.Decl), <<>>)
             ds == NewSlice(d.h, "[]*VariableNode", d.v)
             c == CopyElems(ds.h, Elems(ds.h, p.Cmds), <<>>)
             cs == NewSlice(c.h, "[]*CommandNode", c.v)
         IN  Alloc(cs.h, [k |-> "*PipeNode",
                          n |-> [newPipeline(p.Pos, p.Line, ds.a) EXCEPT !.Cmds = cs.a]])

\* CommandNode.Copy
CommandNode_Copy(h, a) ==
    IF a = 0 THEN [h |-> h, a |-> 0]
    ELSE LET e == CopyElems(h, Elems(h, h[a].n.Args), <<>>)
             s == NewSlice(e.h, "[]Node", e.v)
         IN  Alloc(s.h, [k |-> "*CommandNode",
                         n |-> [newCommand(h[a].n.Pos) EXCEPT !.Args = s.a]])

\* ChainNode.Copy: Node is c.Node itself, Field a new slice
ChainNode_Copy(h, a) ==
    LET c == h[a].n
        f == CopySlice(h, "[]string", c.Field)
    IN  Alloc(f.h, [k |-> "*ChainNode",
                    n |-> [Type |-> "NodeChain", Pos |-> c.Pos, Node |-> c.Node, Field |-> f.a]])

\* TextNode.Copy, NLNode.Copy, CRNode.Copy, SpaceNode.Copy: a struct of type k
\* with NodeType type and the bytes copied; Pos is not set
LeafCopy(h, a, k, type) ==
    LET b == CopySlice(h, "[]byte", h[a].n.Text)
    IN  Alloc(b.h, [k |-> k, n |-> [Type |-> type, Pos |-> 0, Text |-> b.a]])

\* VariableNode.Copy
VariableNode_Copy(h, a) ==
    LET v == h[a].n
        s == CopySlice(h, "[]string", v.Ident)
    IN  Alloc(s.h, [k |-> "*VariableNode",
                    n |-> [Type |-> "NodeVariable", Typ |-> v.Typ, Pos |-> v.Pos, Ident |-> s.a]])

\* ActionNode.Copy
ActionNode_Copy(h, a) ==
    LET n == h[a].n
        p == PipeNode_CopyPipe(h, n.Pipe)
    IN  Alloc(p.h, [k |-> "*ActionNode",
                    n |-> [newAction(n.Typ, n.Pos, n.Line, NilNode) EXCEPT !.Pipe = p.a]])

Copy(h, a) ==
    LET k == h[a].k
    IN  CASE k = "*TextNode" -> LeafCopy(h, a, "*TextNode", "NodeText")
          [] k = "*NLNode" -> LeafCopy(h, a, "*NLNode", "NodeNL")
          [] k = "*CRNode" -> LeafCopy(h, a, "*NLNode", "NodeCR")
          [] k = "*SpaceNode" -> LeafCopy(h, a, "*SpaceNode", "NodeSpace")
          [] k = "*PartialNode" ->
                Alloc(h, [k |-> k, n |-> newPartial(h[a].n.Pos, h[a].n.Ident)])
          [] k = "*endNode" -> Alloc(h, [k |-> k, n |-> newEnd(h[a].n.Pos, h[a].n.Name)])
          [] k = "*VariableNode" -> VariableNode_Copy(h, a)
          [] k = "*ListNode" -> ListNode_CopyList(h, a)
          [] k = "*CommandNode" -> CommandNode_Copy(h, a)
          [] k = "*PipeNode" -> PipeNode_CopyPipe(h, a)
          [] k = "*ActionNode" -> ActionNode_Copy(h, a)
          [] k = "*ChainNode" -> ChainNode_Copy(h, a)

\* for _, elem := range l.Nodes { n.append(elem.Copy()) }
CopyElems(h, es, acc) ==
    IF es = <<>> THEN [h |-> h, v |-> acc]
    ELSE CHOOSE r \in {CopyElems(c.h, Tail(es), Append(acc, c.a)) :
                          c \in {Copy(h, Head(es))}} : TRUE

\* String of the node at address a (textFormat is "%s"); fmt prints a nil
\* element as <nil>
RECURSIVE String(_, _)
RECURSIVE Join(_, _, _, _)
String(h, a) ==
    IF a = 0 THEN "<nil>"
    ELSE LET k == h[a].k
             n == h[a].n
         IN  CASE k \in {"*TextNode", "*NLNode", "*CRNode", "*SpaceNode"} ->
                     IF n.Text = 0 THEN "" ELSE h[n.Text].v
               [] k = "*PartialNode" -> n.Ident
               [] k = "*endNode" -> "{{\\" \o n.Name \o "}}"
               [] k = "*VariableNode" -> JoinDots(Elems(h, n.Ident))
               [] k = "*ListNode" -> Join(h, Elems(h, n.Nodes), "", FALSE)
               [] k = "*CommandNode" -> Join(h, Elems(h, n.Args), " ", TRUE)
               [] k = "*PipeNode" ->
                     (IF Len(Elems(h, n.Decl)) > 0
                      THEN Join(h, Elems(h, n.Decl), ", ", FALSE) \o " := " ELSE "")
                     \o Join(h, Elems(h, n.Cmds), " | ", FALSE)
               [] k = "*ActionNode" -> "{{" \o String(h, n.Pipe) \o "}}"
               [] k = "*ChainNode" ->
                     (IF n.Node # 0 /\ h[n.Node].k = "*PipeNode"
                      THEN "(" \o String(h, n.Node) \o ")" ELSE String(h, n.Node))
                     \o (IF Len(Elems(h, n.Field)) = 0 THEN ""
                         ELSE "." \o JoinDots(Elems(h, n.Field)))

\* the strings of the nodes at es with sep between them; a pipeline among
\* the arguments of a command is parenthesized
Join(h, es, sep, paren) ==
    IF es = <<>> THEN ""
    ELSE (IF paren /\ Head(es) # 0 /\ h[Head(es)].k = "*PipeNode"
          THEN "(" \o String(h, Head(es)) \o ")" ELSE String(h, Head(es)))
         \o (IF Len(es) = 1 THEN "" ELSE sep \o Join(h, Tail(es), sep, paren))

\* the addresses a cell holds
Refs(cell) ==
    IF cell.k \in {"[]byte", "[]string"} THEN {}
    ELSE IF cell.k \in {"[]Node", "[]*VariableNode", "[]*CommandNode"}
         THEN {cell.v[i] : i \in 1..Len(cell.v)} \ {0}
    ELSE {cell.n[f] : f \in PointerFields(cell.k)} \ {0}

\* the cells that can be reached from the addresses in todo, seen included
RECURSIVE ReachFrom(_, _, _)
ReachFrom(h, todo, seen) ==
    IF todo = {} THEN seen
    ELSE LET a == CHOOSE x \in todo : TRUE
         IN  ReachFrom(h, (todo \cup Refs(h[a])) \ (seen \cup {a}), seen \cup {a})

\* the storage of the node at address a: its struct and all it refers to
Reach(h, a) == IF a = 0 THEN {} ELSE ReachFrom(h, {a}, {})

----------------------------------------------------------------------------
(* The system *)

Init ==
    \E c \in Calls :
        /\ l = lex(c.name, c.text, c.left, c.right)
        /\ consumer \in {"Parse", "Collect"}
        /\ recvd = <<>>
        /\ w = IF consumer = "Parse" THEN Parser(c, <<>>) ELSE Collect_start
        /\ heap = <<>> /\ src = 0 /\ dup = 0 /\ snap = <<>> /\ muts = 0

\* lexer.run: one turn of its loop, per state function
CanRun(f) == l.state = f /\ l.sending = <<>> /\ ~l.spin

RunLexText == CanRun("lexText") /\ l' = lexText(l) /\ UNCHANGED <<consumer, recvd, w, nodeVars>>
RunLexOTag == CanRun("lexOTag") /\ l' = lexOTag(l) /\ UNCHANGED <<consumer, recvd, w, nodeVars>>
RunLexCTag == CanRun("lexCTag") /\ l' = lexCTag(l) /\ UNCHANGED <<consumer, recvd, w, nodeVars>>
RunLexComment == CanRun("lexComment") /\ l' = lexComment(l) /\ UNCHANGED <<consumer, recvd, w, nodeVars>>
RunLexEscaped == CanRun("lexEscaped") /\ l' = lexEscaped(l) /\ UNCHANGED <<consumer, recvd, w, nodeVars>>
RunLexUnescaped == CanRun("lexUnescaped") /\ l' = lexUnescaped(l) /\ UNCHANGED <<consumer, recvd, w, nodeVars>>
RunLexSection == CanRun("lexSection") /\ l' = lexSection(l) /\ UNCHANGED <<consumer, recvd, w, nodeVars>>
RunLexPartial == CanRun("lexPartial") /\ l' = lexPartial(l) /\ UNCHANGED <<consumer, recvd, w, nodeVars>>
RunLexDeltaDelimiter ==
    CanRun("lexDeltaDelimiter") /\ l' = lexDeltaDelimiter(l) /\ UNCHANGED <<consumer, recvd, w, nodeVars>>

\* l.items <- item: the send completes when the channel has room
Send ==
    /\ l.sending # <<>>
    /\ Len(l.items) < ChanCap
    /\ l' = [l EXCEPT !.items = Append(@, Head(l.sending)), !.sending = Tail(@)]
    /\ UNCHANGED <<consumer, recvd, w, nodeVars>>

\* Collect: item := l.nextItem(); items = append(items, item)
CollectRecv ==
    /\ consumer = "Collect"
    /\ w.st = "wait"
    /\ l.items # <<>>
    /\ Len(recvd) < MaxItems
    /\ l' = lexer_nextItem(l)
    /\ recvd' = Append(recvd, Head(l.items))
    /\ w' = Collect_step(w, Head(l.items))
    /\ UNCHANGED <<consumer, nodeVars>>

\* Tree.next and Tree.peek: t.token[0] = t.lex.nextItem(), and the parser up to
\* its next receive or to the end of Tree.Parse
ParseRecv ==
    /\ consumer = "Parse"
    /\ w.st = "wait"
    /\ l.items # <<>>
    /\ Len(recvd) < MaxItems
    /\ l' = lexer_nextItem(l)
    /\ recvd' = Append(recvd, Head(l.items))
    /\ w' = Parser(w.args, recvd')
    /\ UNCHANGED <<consumer, nodeVars>>

\* testParse with doCopy: tmpl.Root.Copy() on the tree a successful Parse returned
CopyRoot ==
    /\ consumer = "Parse"
    /\ w.st = "ok"
    /\ dup = 0
    /\ src' = Store(<<>>, w.t.Root).a
    /\ heap' = Copy(Store(<<>>, w.t.Root).h, src').h
    /\ dup' = Copy(Store(<<>>, w.t.Root).h, src').a
    /\ snap' = heap'
    /\ UNCHANGED <<l, consumer, recvd, w, muts>>

Next ==
    \/ RunLexText
    \/ RunLexOTag
    \/ RunLexCTag
    \/ RunLexComment
    \/ RunLexEscaped
    \/ RunLexUnescaped
    \/ RunLexSection
    \/ RunLexPartial
    \/ RunLexDeltaDelimiter
    \/ Send
    \/ CollectRecv
    \/ ParseRecv
    \/ CopyRoot

Spec == Init /\ [][Next]_vars

\* Collect(name, src, left, right): the tokenizer with the consumer that keeps
\* receiving up to the terminal item
CollectInit == Init /\ consumer = "Collect"

CollectNext ==
    \/ RunLexText
    \/ RunLexOTag
    \/ RunLexCTag
    \/ RunLexComment
    \/ RunLexEscaped
    \/ RunLexUnescaped
    \/ RunLexSection
    \/ RunLexPartial
    \/ RunLexDeltaDelimiter
    \/ Send
    \/ CollectRecv

\* The goroutines are scheduled: a step that stays possible is taken.
CollectSpec == CollectInit /\ [][CollectNext]_vars /\ WF_vars(CollectNext)

\* A caller of Copy: it holds a node, copies it, and then writes through the
\* copy.  The nodes it may hold, built with the constructors:
SrcVariable == newVariable("tagEscaped", 2, "x.y")
SrcCommand == [newCommand(2) EXCEPT !.Args = <<SrcVariable, newVariable("tagEscaped", 6, "z")>>]
SrcPipe == [newPipeline(2, 1, <<newVariable("tagEscaped", 0, "v")>>) EXCEPT !.Cmds = <<SrcCommand>>]
SrcAction == newAction("tagEscaped", 2, 1, [newPipeline(2, 1, <<>>) EXCEPT !.Cmds = <<SrcCommand>>])
SrcChain == [newChain(2, SrcVariable) EXCEPT !.Field = <<"f">>]
Sources ==
    {newText(0, "ab"), newNL(2, "\n"), newCR(2, "\r"), newSpace(2, "  "),
     newPartial(2, "p"), newEnd(2, "a"), SrcVariable, SrcCommand, SrcPipe, SrcAction,
     newList(0),
     [newList(0) EXCEPT !.Nodes = <<newText(0, "a"), SrcAction>>],
     [newList(0) EXCEPT !.Nodes = <<newSpace(0, " "), newPartial(3, "p"), newNL(7, "\n")>>],
     [newList(0) EXCEPT !.Nodes = <<[newList(1) EXCEPT !.Nodes = <<newCR(1, "\r")>>]>>],
     SrcChain,
     [newChain(2, SrcPipe) EXCEPT !.Field = <<"f", "g">>],
     [newCommand(2) EXCEPT !.Args = <<SrcChain>>],
     [newList(0) EXCEPT !.Nodes = <<newText(0, "a"), newAction("tagEscaped", 2, 1,
         [newPipeline(2, 1, <<>>) EXCEPT !.Cmds = <<[newCommand(2) EXCEPT !.Args = <<SrcChain>>]>>])>>]}

\* no template is being lexed or parsed while the caller works on its nodes
CopyInit ==
    /\ \E n \in Sources : heap = Store(<<>>, n).h /\ src = Store(<<>>, n).a
    /\ dup = 0 /\ snap = <<>> /\ muts = 0
    /\ l = lex("", "", "", "") /\ consumer = "none" /\ recvd = <<>> /\ w = Collect_start

\* dup := src.Copy()
CopyNode ==
    /\ dup = 0
    /\ heap' = Copy(heap, src).h
    /\ dup' = Copy(heap, src).a
    /\ snap' = heap'
    /\ UNCHANGED <<l, consumer, recvd, w, src, muts>>

\* the caller may write to what it reaches from the copy
CanWrite(a) == dup # 0 /\ muts < MaxMutations /\ a \in Reach(heap, dup)

\* a byte of a payload: n.Text[i] = 'z'
SetByte ==
    \E a \in 1..Len(heap) :
        /\ CanWrite(a) /\ heap[a].k = "[]byte"
        /\ \E i \in 1..Len(heap[a].v) :
               heap' = [heap EXCEPT ![a].v = SubSeq(@, 1, i - 1) \o "z" \o SubSeq(@, i + 1, Len(@))]
        /\ muts' = muts + 1
        /\ UNCHANGED <<l, consumer, recvd, w, src, dup, snap>>

\* a name of a field list: n.Ident[i] = "z", c.Field[i] = "z"
SetString ==
    \E a \in 1..Len(heap) :
        /\ CanWrite(a) /\ heap[a].k = "[]string"
        /\ \E i \in 1..Len(heap[a].v) : heap' = [heap EXCEPT ![a].v[i] = "z"]
        /\ muts' = muts + 1
        /\ UNCHANGED <<l, consumer, recvd, w, src, dup, snap>>

\* an element of a child list: l.Nodes[i] = nil, p.Cmds[i] = nil
SetElem ==
    \E a \in 1..Len(heap) :
        /\ CanWrite(a) /\ heap[a].k \in {"[]Node", "[]*VariableNode", "[]*CommandNode"}
        /\ \E i \in 1..Len(heap[a].v) : heap' = [heap EXCEPT ![a].v[i] = 0]
        /\ muts' = muts + 1
        /\ UNCHANGED <<l, consumer, recvd, w, src, dup, snap>>

\* a field of a node: n.Pos++, or a slice or a pointer of it set to nil
SetField ==
    \E a \in 1..Len(heap) :
        /\ CanWrite(a) /\ "n" \in DOMAIN heap[a]
        /\ \/ heap' = [heap EXCEPT ![a].n.Pos = @ + 1]
           \/ \E f \in PointerFields(heap[a].k) :
                  heap[a].n[f] # 0 /\ heap' = [heap EXCEPT ![a].n[f] = 0]
        /\ muts' = muts + 1
        /\ UNCHANGED <<l, consumer, recvd, w, src, dup, snap>>

CopyNext ==
    \/ CopyNode
    \/ SetByte
    \/ SetString
    \/ SetElem
    \/ SetField

CopySpec == CopyInit /\ [][CopyNext]_vars

----------------------------------------------------------------------------
(* Properties *)

Last(q) == q[Len(q)]

Terminal(i) == i.typ = "EOF" \/ i.typ = "ERROR"

\* Tree.Parse has returned to its caller or left it by a panic
Returned == consumer = "Parse" /\ w.st \in {"ok", "err", "panic"}

\* the items emitted so far, in the order of emission: taken, in the channel,
\* and in a send that has not completed
Emitted == recvd \o l.items \o l.sending

\* C1: Tree.Parse returns (tree, nil) or (nil, error) for every text; no panic
\* leaves the call, whatever tokens are at top level or in a section body.
C1_NoPanicLeavesParse == consumer = "Parse" => w.st # "panic"

\* C2: Tree.Parse never blocks in a receive after it has taken the
\* tokenizer's terminal token (EOF or ERROR).
C2_NoReceiveAfterTerminal ==
    ~(consumer = "Parse" /\ w.st = "wait" /\ recvd # <<>> /\ Terminal(Last(recvd)))

\* C3: an ERROR token is the last token the parser takes, and with it Parse
\* returns a non-nil error.
C3_ErrorReRaisedAtOnce ==
    consumer = "Parse" =>
        \A i \in 1..Len(recvd) :
            recvd[i].typ = "ERROR" => i = Len(recvd) /\ w.st = "err"

\* C4: with a consumer that keeps receiving (Collect), the tokenizer reaches
\* its terminal token: Collect takes it and returns.
C4_TokenizerReachesTerminal == <>(consumer = "Collect" /\ w.st = "ok")

\* C5: a terminal token (EOF or ERROR) is the last item the tokenizer emits,
\* so there is at most one, and once it is emitted the state machine has
\* stopped (the next state is nil); the tokenizer is not in an endless loop.
C5_TerminalIsLast ==
    \A i \in 1..Len(Emitted) :
        Terminal(Emitted[i]) => i = Len(Emitted) /\ l.state = "nil" /\ ~l.spin

\* C5 happens: after other items an ERROR was emitted, and everything emitted
\* has been taken from the channel, the tokenizer having stopped.
C5_Witness ==
    /\ Len(recvd) >= 3
    /\ Last(recvd).typ = "ERROR"
    /\ l.items = <<>> /\ l.sending = <<>> /\ l.state = "nil"

\* C6: once Parse has returned an error, the tokenizer goroutine is not
\* blocked in a send on the full channel (nothing receives any more, so it
\* would stay blocked for ever).
C6_ProducerNotLeftBlocked ==
    ~(consumer = "Parse" /\ w.st = "err" /\ l.sending # <<>> /\ Len(l.items) = ChanCap)

\* C7: an end tag is accepted as closing a section only when it carries the
\* name of the section's opening tag.
C7_EndNameMatches ==
    consumer = "Parse" =>
        \A i \in 1..Len(w.sections) : w.sections[i].end = w.sections[i].Name

\* C8: Parse of "{{#list}}{{item}}{{/list}}" succeeds, and the tree of the
\* section list has exactly one child, the escaped variable item.
C8_ListSectionParsed ==
    (Returned /\ w.args.text = "{{#list}}{{item}}{{/list}}") =>
        /\ w.st = "ok"
        /\ "list" \in DOMAIN w.treeSet
        /\ Len(w.treeSet["list"].Root.Nodes) = 1
        /\ w.treeSet["list"].Root.Nodes[1].Type = "NodeAction"
        /\ w.treeSet["list"].Root.Nodes[1].Typ = "tagEscaped"
        /\ w.treeSet["list"].Root.Nodes[1].Pipe.Cmds[1].Args[1].Ident = <<"item">>

\* C9: Parse of "{{>name}}" succeeds and the root list holds exactly one node,
\* the Partial node named name.
C9_PartialParsed ==
    (Returned /\ w.args.text = "{{>name}}") =>
        /\ w.st = "ok"
        /\ Len(w.t.Root.Nodes) = 1
        /\ w.t.Root.Nodes[1].Type = "NodePartial"
        /\ w.t.Root.Nodes[1].Ident = "name"

\* C10: a comment that is the first token of the input and is followed at
\* once by a newline is standalone: after Parse the root list has no nodes.
C10_FirstCommentStandalone ==
    (Returned /\ w.args.text = "{{!comment}}\n") =>
        /\ w.st = "ok"
        /\ w.t.Root.Nodes = <<>>

\* C11: a comment or delimiter-change tag removes the last node of the root
\* list only when the look ahead has confirmed it standalone as well; when the
\* close tag is followed by text or another tag the root list stays as it was.
C11_PopOnlyWhenStandalone ==
    consumer = "Parse" =>
        \A i \in 1..Len(w.elisions) : w.elisions[i].popRoot => w.elisions[i].trailing

\* C12: a reference to a variable that no earlier declaration has registered
\* makes Parse fail with "undefined variable"; the tag {{x}}, with no
\* declaration of x before it, fails so.
C12_UndeclaredVariableFails ==
    (Returned /\ w.args.text = "{{x}}") => w.st = "err" /\ w.err = "undefined variable %q"

\* the values and types of a sequence of items
Shown(q) == [k \in 1..Len(q) |-> <<q[k].typ, q[k].value>>]

\* the items that open a tag
OpenTags ==
    {"tagEscaped", "tagUnescaped", "tagSection", "tagEndSection", "tagInverted",
     "tagPartial", "tagComment", "tagDeltaDelimiter"}

\* C13: after a well-formed {{=O C=}} the active pair is (O, C) for all later
\* scanning: after {{=| |=}} every tag opens with | and closes with |, the old
\* delimiters are plain text, and {{=<% %>=}}<%foo%> lexes <%foo%> as open
\* marker <%, identifier foo, close %>.
C13_NewDelimitersActive ==
    /\ (HasPrefix(l.input, "{{=| |=}}") /\ l.pos >= 9) =>
          /\ l.oTag = "|" /\ l.cTag = "|"
          /\ \A k \in 3..Len(Emitted) :
                /\ Emitted[k].typ = "itemCTag" => Emitted[k].value = "|"
                /\ Emitted[k].typ \in OpenTags => HasPrefix(Emitted[k].value, "|")
                /\ Index(Emitted[k].value, "{{") >= 0 =>
                      Emitted[k].typ \in {"itemText", "identEscaped", "identUnescaped",
                                          "itemIdentifier", "itemDiscard"}
    /\ (l.input = "{{=<% %>=}}<%foo%>" /\ l.state = "nil") =>
          Shown(Emitted) = << <<"tagDeltaDelimiter", "{{=">>, <<"itemCTag", "}}">>,
                              <<"tagEscaped", "<%">>, <<"identEscaped", "foo">>,
                              <<"itemCTag", "%>">>, <<"EOF", "">> >>

C13_Witness ==
    /\ l.input = "{{=| |=}}{{x}}" /\ l.state = "nil"
    /\ consumer = "Collect" /\ w.st = "ok"
    /\ Shown(recvd)[3] = <<"itemText", "{{x}}">>

\* the concatenation of the values of a sequence of items
RECURSIVE Concat(_)
Concat(q) == IF q = <<>> THEN "" ELSE Head(q).value \o Concat(Tail(q))

\* C14: for an input with no comment tag and no delimiter-change tag the values
\* of all items emitted, concatenated in order, are the input (escaped,
\* unescaped {{{x}}} and {{&x}}, section, end-section, inverted, partial tags).
C14_LosslessTokens ==
    (/\ l.state = "nil"
     /\ Emitted # <<>> /\ Last(Emitted).typ = "EOF"
     /\ \A k \in 1..Len(Emitted) : Emitted[k].typ \notin {"tagComment", "tagDeltaDelimiter"})
        => Concat(Emitted) = l.input

\* C15: when Parse (package level, a new empty map) meets an error, the map it
\* returns with the error is empty, also when sections were parsed before the
\* point of the error.
C15_ErrorMapEmpty ==
    (consumer = "Parse" /\ w.args.treeSet = <<>> /\ w.st = "err") => DOMAIN w.treeSet = {}

\* C16: after a failed Tree.Parse (st = "err": the tree returned is nil) the
\* Root of the Tree Parse was called on is nil, also when the failure arose in
\* a section body.
C16_FailedParseRootNil ==
    (consumer = "Parse" /\ w.st = "err") => w.t.id = 0 /\ w.t.Root = NilNode

\* C17: every add of a tree produced by parsing ends in one of the outcomes
\* described: the new tree is stored under its name when the name is absent or
\* maps to an empty tree; when the name maps to a non-empty tree the parse
\* fails with the multiple-definition error if the new tree is not empty (an
\* empty new tree leaves the map as it is).  No add ends any other way.
C17_AddStoresOrFails ==
    consumer = "Parse" =>
        \A i \in 1..Len(w.adds) :
            /\ w.adds[i].outcome \in {"stored", "error", "kept"}
            /\ w.adds[i].existing \in {"absent", "true"} => w.adds[i].outcome = "stored"
            /\ w.adds[i].outcome = "error" => w.st = "err"

\* the texts with a variable tag whose body is empty
EmptyTags == {"{{}}", "a{{}}", "{{&}}", "{{}}a a a", "{{#a}}{{}}{{/a}}"}

\* C18: a variable tag with an empty body (the close tag right after the open
\* marker) makes Parse fail with the "missing value" error.
C18_EmptyTagFails ==
    (Returned /\ w.args.text \in EmptyTags) =>
        w.st = "err" /\ w.err = "missing value for command"

C18_Witness ==
    Returned /\ w.args.text = "{{}}" /\ w.st = "err" /\ Len(recvd) = 2

\* the number of sections open after the items q, or -1 when an end-section
\* tag comes with no section open
RECURSIVE Depth(_, _)
Depth(q, d) ==
    IF q = <<>> THEN d
    ELSE IF Head(q).typ \in {"tagSection", "tagInverted"} THEN Depth(Tail(q), d + 1)
    ELSE IF Head(q).typ = "tagEndSection" THEN (IF d = 0 THEN -1 ELSE Depth(Tail(q), d - 1))
    ELSE Depth(Tail(q), d)

\* C19: section tags are balanced in every successful parse, and Parse fails
\* when the input ends with a section open or an end-section tag comes at top
\* level with no open section.
C19_SectionsBalanced ==
    /\ (consumer = "Parse" /\ w.st = "ok") => Depth(recvd, 0) = 0
    /\ (Returned /\ Last(recvd).typ = "EOF" /\ Depth(recvd, 0) # 0) => w.st = "err"

\* C20: a copy shares no storage with the node it was made from: whatever
\* the caller writes through the copy (a byte of a payload, a name of a
\* field list, an element of a child list, a field of a child node), every
\* cell of the original is as Copy left it and the original's String is the
\* same
C20_CopySharesNothing ==
    dup # 0 =>
        /\ \A a \in Reach(snap, src) : heap[a] = snap[a]
        /\ String(heap, src) = String(snap, src)

\* the nodes directly under the node at address a, in order
Children(h, a) ==
    LET k == h[a].k
        n == h[a].n
    IN  CASE k = "*ListNode" -> Elems(h, n.Nodes)
          [] k = "*CommandNode" -> Elems(h, n.Args)
          [] k = "*PipeNode" -> Elems(h, n.Decl) \o Elems(h, n.Cmds)
          [] k = "*ActionNode" -> <<n.Pipe>>
          [] k = "*ChainNode" -> <<n.Node>>
          [] OTHER -> <<>>

\* the nodes at a and b have the same kind and position, and so have the
\* nodes under them, one by one
RECURSIVE SameNodes(_, _, _)
SameNodes(h, a, b) ==
    IF a = 0 \/ b = 0 THEN a = b
    ELSE /\ h[a].n.Type = h[b].n.Type
         /\ h[a].n.Pos = h[b].n.Pos
         /\ Len(Children(h, a)) = Len(Children(h, b))
         /\ \A i \in 1..Len(Children(h, a)) :
                SameNodes(h, Children(h, a)[i], Children(h, b)[i])

\* C21: the copy of the root of a tree that a successful Parse returned is
\* equal to the root node for node: the same String, and every copied node
\* has the kind and the position of the node it was copied from
C21_CopyEqualsRoot ==
    (consumer = "Parse" /\ w.st = "ok" /\ dup # 0) =>
        /\ String(snap, dup) = String(snap, src)
        /\ SameNodes(snap, src, dup)

\* C22: every item emitted other than an ERROR has as value the bytes of the
\* input from its position on; an item starts at or after the end of the item
\* before it; the EOF item has the empty value and the length of the input as
\* its position
C22_TokenPositions ==
    \A i \in 1..Len(Emitted) :
        Emitted[i].typ # "ERROR" =>
            /\ Emitted[i].pos + Len(Emitted[i].value) <= Len(l.input)
            /\ Emitted[i].value = Slice(l.input, Emitted[i].pos, Emitted[i].pos + Len(Emitted[i].value))
            /\ i > 1 => Emitted[i - 1].pos + Len(Emitted[i - 1].value) <= Emitted[i].pos
            /\ Emitted[i].typ = "EOF" => Emitted[i].value = "" /\ Emitted[i].pos = Len(l.input)

\* the tokenizer has ended with EOF on a text with a delimiter change: the
\* close item of the change and the items after it have been emitted
C22_Witness ==
    /\ l.input = "{{=<% %>=}}<%foo%>"
    /\ l.state = "nil"
    /\ Len(Emitted) = 6
    /\ Emitted[2].typ = "itemCTag" /\ Emitted[2].pos = 9
    /\ Last(Emitted).typ = "EOF" /\ Last(Emitted).pos = 18

C24_IsEmptyTreeReturns ==
    (consumer = "Parse" /\ w.st = "ok" /\ w.t.Root # NilNode) =>
        /\ IsEmptyTree(w.t.Root) \in {"true", "false"}
        /\ \A i \in 1..Len(w.t.Root.Nodes) : IsEmptyTree(w.t.Root.Nodes[i]) \in {"true", "false"}
        /\ w.t.Root.Nodes = <<>> => IsEmptyTree(w.t.Root) = "true"
        /\ (\E i \in 1..Len(w.t.Root.Nodes) : w.t.Root.Nodes[i].Type = "NodeText") =>
              IsEmptyTree(w.t.Root) = "false"
        /\ (/\ w.t.Root.Nodes # <<>>
            /\ \A i \in 1..Len(w.t.Root.Nodes) : w.t.Root.Nodes[i].Type \in {"NodeSpace", "NodeNL"}) =>
              IsEmptyTree(w.t.Root) = "false"

\* C25: every error Parse returns is "template: <name>:<line>: ..." with
\* <name> the name of the template Parse was called on and <line> 1 + the
\* number of newlines before the position of the item received last, also for
\* an error raised in a section body
C25_ErrorNamesTemplateAndLine ==
    (consumer = "Parse" /\ w.st = "err") =>
        /\ w.errName = w.args.name
        /\ w.errLine = 1 + (IF recvd = <<>> THEN 0
                            ELSE CountNL(Slice(w.args.text, 0, Last(recvd).pos)))

\* C26: sections nest: Parse succeeds on {{#a}}{{#b}}x{{/b}}{{/a}}, and the
\* inner section is parsed as a section of its own, installed in the template
\* set under its name b, like the outer one under a
C26_SectionsNest ==
    (Returned /\ w.args.text = "{{#a}}{{#b}}x{{/b}}{{/a}}") =>
        /\ w.st = "ok"
        /\ {"a", "b"} \subseteq DOMAIN w.treeSet

\* C27: next, peek and backup never lose, repeat, reorder or invent an item:
\* every item they return is the item of the tokenizer's stream at the place
\* where the parser stands, also after processComment or processDeltaDelimiter
\* has looked ahead and backed up
C27_LookaheadKeepsStream ==
    consumer = "Parse" =>
        \A i \in 1..Len(w.handed) :
            /\ w.handed[i].at \in 1..Len(recvd)
            /\ w.handed[i].item = recvd[w.handed[i].at]

\* the text of a list of text, space, newline and carriage-return nodes
RECURSIVE NodesText(_)
NodesText(nodes) ==
    IF nodes = <<>> THEN ""
    ELSE (IF "Text" \in DOMAIN Head(nodes) THEN Head(nodes).Text ELSE "?") \o NodesText(Tail(nodes))

\* texts in which every comment or delimiter-change tag is alone on its line,
\* each with the text that is left when the lines of the tags are taken out
StandaloneCases ==
    { <<"{{!c}}\n", "">>, <<"{{!c}}", "">>, <<"\n{{!c}}", "\n">>, <<"\n{{!c}}\n", "\n">>,
      <<" {{!c}}\n", "">>, <<"\n{{=| |=}}\n", "\n">>, <<"{{!c}}\n{{!c}}", "">>,
      <<"a\n {{!c}} \nb", "a\nb">>, <<"a\r\n{{!c}}\r\nb", "a\r\nb">>,
      <<"\n{{!c}}\n{{!c}}\n", "\n">>, <<"a\n{{!c}}\n{{=| |=}}\nb", "a\nb">> }

\* C28: a comment or delimiter-change tag that is alone on its line is taken
\* out together with its line break, also when the line before it was such a
\* tag: Parse succeeds and the root list holds the text of the other lines
C28_StandaloneLinesElided ==
    \A c \in StandaloneCases :
        (Returned /\ w.args.text = c[1] /\ w.args.treeSet = <<>>) =>
            /\ w.st = "ok"
            /\ NodesText(w.t.Root.Nodes) = c[2]

\* texts with one tag that is a leading candidate (it follows a line break),
\* each with whether what follows the close tag confirms it standalone and,
\* if so, the text that is left when the tag and the spaces and line break
\* after it are taken out
TrailingCases ==
    { <<"a\n{{!c}}", TRUE, "a\n">>, <<"a\n{{!c}}\nb", TRUE, "a\nb">>,
      <<"a\n{{!c}}\rb", TRUE, "a\nb">>, <<"a\n{{!c}}\r\nb", TRUE, "a\nb">>,
      <<"a\n{{!c}} \nb", TRUE, "a\nb">>, <<"a\n{{!c}}  \nb", TRUE, "a\nb">>,
      <<"a\n{{!c}}\t\nb", TRUE, "a\nb">>, <<"a\n{{!c}} \rb", TRUE, "a\nb">>,
      <<"a\n{{=| |=}} \rb", TRUE, "a\nb">>, <<"a\n{{=| |=}}\r\nb", TRUE, "a\nb">>,
      <<"a\n{{!c}}\n\nb", TRUE, "a\n\nb">>,
      <<"a\n{{!c}} b", FALSE, "">>, <<"a\n{{!c}}b", FALSE, "">> }

\* C29: a leading-candidate tag is confirmed standalone exactly when its close
\* tag is followed by EOF, a newline, a carriage return (with or without a
\* newline), or spaces and then a newline or a carriage return; when it is
\* confirmed, the spaces and the line break are consumed and give no node
C29_TrailingConfirmed ==
    \A c \in TrailingCases :
        (Returned /\ w.args.text = c[1] /\ w.args.treeSet = <<>>) =>
            /\ Len(w.elisions) = 1
            /\ w.elisions[1].trailing = c[2]
            /\ c[2] => w.st = "ok" /\ NodesText(w.t.Root.Nodes) = c[3]

\* the node kinds a finished tree may hold: text, space, newline, carriage
\* return, partial and action
Finished(nodes) ==
    \A i \in 1..Len(nodes) :
        nodes[i].Type \in {"NodeText", "NodeSpace", "NodeNL", "NodeCR",
                           "NodePartial", "NodeAction"}

\* C30: after a successful Parse, the root list of the returned tree and the
\* root list of every tree registered in the template set hold only text,
\* space, newline, carriage-return, partial and variable-action nodes: no
\* end-marker, comment or delimiter-change node is ever in a finished tree.
C30_FinishedTreesHoldContentOnly ==
    (Returned /\ w.st = "ok") =>
        /\ Finished(w.t.Root.Nodes)
        /\ \A n \in DOMAIN w.treeSet : Finished(w.treeSet[n].Root.Nodes)

\* a successful Parse that met a close tag and registered a section with a body
C30_Witness ==
    /\ Returned
    /\ w.st = "ok"
    /\ w.args.text = "{{#a}} x {{/a}}"
    /\ w.args.treeSet = <<>>
    /\ \E n \in DOMAIN w.treeSet : Len(w.treeSet[n].Root.Nodes) > 0

\* the kind of tag that the character after the open delimiter stands for
TagKind(r) ==
    CASE r = "!" -> "tagComment"
      [] r = "{" -> "tagUnescaped"
      [] r = "&" -> "tagUnescaped"
      [] r = "#" -> "tagSection"
      [] r = "/" -> "tagEndSection"
      [] r = "^" -> "tagInverted"
      [] r = ">" -> "tagPartial"
      [] r = "=" -> "tagDeltaDelimiter"
      [] OTHER -> "tagEscaped"

\* the character of the input at offset p, the empty string past the end
CharAt(p) == IF p < Len(l.input) THEN SubSeq(l.input, p + 1, p + 1) ELSE ""

\* C31: on the active open delimiter the tokenizer classifies the tag by the
\* one character after it ('!' comment, '{' or '&' unescaped, '#' section,
\* '/' end-section, '^' inverted, '>' partial, '=' delimiter change, anything
\* else escaped); the marker's value is the delimiter plus that character,
\* but for the escaped variable it is the delimiter alone and the character
\* is left for what follows the marker.
C31_TagClassifiedByNextCharacter ==
    [][RunLexOTag =>
          LET r == CharAt(l.pos + Len(l.oTag))
              marker == l'.sending[1]
          IN  /\ Len(l'.sending) = 1
              /\ marker.typ = TagKind(r)
              /\ marker.pos = l.pos
              /\ marker.value = IF TagKind(r) = "tagEscaped" THEN l.oTag ELSE l.oTag \o r
              /\ l'.pos = l.pos + Len(marker.value)
              /\ l'.start = l'.pos]_vars

\* a delimiter change and, after it, an escaped variable under the new pair:
\* the marker is <% alone and f is the first character of the identifier
C31_Witness ==
    /\ l.input = "{{=<% %>=}}<%foo%>"
    /\ \E i \in 1..Len(Emitted) : Emitted[i] = Item("tagDeltaDelimiter", 0, "{{=")
    /\ \E i \in 1..(Len(Emitted) - 1) :
           /\ Emitted[i] = Item("tagEscaped", 11, "<%")
           /\ Emitted[i + 1] = Item("identEscaped", 13, "foo")

\* one turn of the state function that follows the open marker of a tag other
\* than a delimiter change
RunLexPayload ==
    \/ RunLexComment
    \/ RunLexEscaped
    \/ RunLexUnescaped
    \/ RunLexSection
    \/ RunLexPartial

\* C32: for every tag kind but the delimiter change, when the close delimiter
\* follows the open marker at zero distance the tokenizer goes straight to the
\* close token: the state function after the marker sends no item, not even
\* one with an empty value, and hands over to lexCTag.
C32_EmptyBodyEmitsNoPayload ==
    [][(RunLexPayload /\ HasPrefix(From(l.input, l.pos), l.cTag)) =>
          (l'.sending = <<>> /\ l'.state = "lexCTag")]_vars

\* the offset of the close delimiter that ends the directive the tokenizer is
\* in, -1 when there is none
OrigCTagPos ==
    IF Index(From(l.input, l.pos), l.cTag) < 0 THEN -1
    ELSE l.pos + Index(From(l.input, l.pos), l.cTag)

\* C33: a delimiter-change directive that is accepted takes both new delimiters
\* from the text between the '=' after the open marker and the original close
\* delimiter: each is a substring of that span, the '=' accepted as the second
\* one stands directly before the original close delimiter, and the close token
\* spans exactly the original close delimiter.
C33_DirectiveReadWithinItsSpan ==
    [][(RunLexDeltaDelimiter /\ l'.state = "lexText") =>
          LET span == Slice(l.input, l.pos, OrigCTagPos)
          IN  /\ Index(span, l'.oTag) >= 0
              /\ Index(span, l'.cTag) >= 0
              /\ SubSeq(l.input, OrigCTagPos, OrigCTagPos) = "="
              /\ l'.sending = <<Item("itemCTag", OrigCTagPos, l.cTag)>>]_vars

\* the directive the tokenizer is in has no space or tab after its new open
\* delimiter: none between the first character that is not one and the
\* original close delimiter
NoSpaceAfterNewOTag ==
    LET s1 == skipWhitespace(l)
    IN  \A p \in s1.pos..(OrigCTagPos - 1) : ~isSpace(SubSeq(l.input, p + 1, p + 1))

\* the directive the tokenizer is in has no '=' directly before its close
\* delimiter
NoSecondEquals == SubSeq(l.input, OrigCTagPos, OrigCTagPos) # "="

\* C34: a delimiter-change directive that is closed but malformed (no space or
\* tab after the new open delimiter, or no '=' before the close delimiter)
\* makes the tokenizer send an ERROR item and stop: the item is its last.
C34_MalformedDirectiveIsError ==
    [][(RunLexDeltaDelimiter /\ OrigCTagPos >= 0 /\ (NoSpaceAfterNewOTag \/ NoSecondEquals)) =>
          /\ Len(l'.sending) = 1
          /\ l'.sending[1].typ = "ERROR"
          /\ l'.state = "nil"]_vars

\* C35: processComment and processDeltaDelimiter apply the same standalone
\* rule: run from the state in which the parser entered either of them (the
\* same history, lookahead buffer, root list and remaining tokens), the two
\* leave the same root list, the same lookahead state and the same remaining
\* tokens, and end the same way.
C35_SameStandaloneRule ==
    (consumer = "Parse") =>
        \A i \in 1..Len(w.entered) :
            LET c == Tree_processComment(w.entered[i])
                d == Tree_processDeltaDelimiter(w.entered[i])
            IN  /\ c.st = d.st
                /\ c.t.Root = d.t.Root
                /\ c.t.token = d.t.token
                /\ c.t.peekCount = d.t.peekCount
                /\ c.in = d.in
                /\ c.elisions = d.elisions

\* a comment after a space, closed by a space and a newline, and a delimiter
\* change on the next line: both were entered, and the first popped the space
\* and took the line break
C35_Witness ==
    /\ Returned
    /\ w.args.text = "a\n {{!c}} \n{{=| |=}}\nb"
    /\ Len(w.entered) = 2
    /\ w.entered[1].t.history[1].typ = "tagComment"
    /\ w.entered[2].t.history[1].typ = "tagDeltaDelimiter"
    /\ Len(w.elisions) = 2
    /\ w.elisions[1].popRoot /\ w.elisions[1].trailing

\* the index in recvd of the first item of one of the types, 0 when none
FirstOf(types) ==
    IF \E i \in 1..Len(recvd) : recvd[i].typ \in types
    THEN CHOOSE i \in 1..Len(recvd) :
             recvd[i].typ \in types /\ \A j \in 1..(i - 1) : recvd[j].typ \notin types
    ELSE 0

IsBodyToken(it) == it.typ \in {"itemText", "itemSpace", "itemNL", "itemCR"}

IsBodyNode(n) == n.Type \in {"NodeText", "NodeSpace", "NodeNL", "NodeCR"}

\* position and text of each element of a sequence of items or of leaf nodes
Spans(s, isItem) ==
    [i \in 1..Len(s) |-> IF isItem THEN <<s[i].pos, s[i].value>> ELSE <<s[i].Pos, s[i].Text>>]

\* C36: in a section body every text, space, newline and carriage-return token
\* between the close of the opening tag and the end tag becomes a node of the
\* section's list, in source order: for a text with one section and no other
\* tag in it that parses, the leaf nodes of the registered section are the
\* body's tokens one for one; no whitespace token is dropped.
C36_BodyTokensBecomeNodes ==
    LET open == FirstOf({"tagSection", "tagInverted"})
        end == FirstOf({"tagEndSection"})
        body == SelectSeq(SubSeq(recvd, open + 3, end - 1), IsBodyToken)
    IN  (/\ Returned
         /\ w.st = "ok"
         /\ w.args.treeSet = <<>>
         /\ Len(w.sections) = 1
         /\ open > 0
         /\ end > open + 2
         /\ \A i \in (open + 3)..(end - 1) : IsBodyToken(recvd[i])) =>
            /\ w.sections[1].Name \in DOMAIN w.treeSet
            /\ Spans(SelectSeq(w.treeSet[w.sections[1].Name].Root.Nodes, IsBodyNode), FALSE)
                   = Spans(body, TRUE)

\* C37: popRoot runs only on a root list that is not nil and not empty and
\* whose last node is the Space node made from the space token directly before
\* the tag being processed (the node ends where the tag's open marker starts);
\* it never removes a text, newline, partial or action node.
C37_PopRootTakesAdjoiningSpace ==
    (consumer = "Parse") =>
        /\ Len(w.elisions) <= Len(w.entered)
        /\ \A i \in 1..Len(w.elisions) :
               w.elisions[i].popRoot =>
                   LET root == w.elisions[i].root
                       tag == w.entered[i].t.history[1]
                   IN  /\ root # NilNode
                       /\ root.Nodes # <<>>
                       /\ Last(root.Nodes).Type = "NodeSpace"
                       /\ Last(root.Nodes).Pos + Len(Last(root.Nodes).Text) = tag.pos

\* C38: in every state of the tokenizer between tokens the active open and
\* close delimiters are non-empty and oLen = len(oTag), cLen = len(cTag): at
\* the start (empty arguments give the defaults) and after every
\* delimiter-change directive.
C38_DelimitersNonEmpty ==
    ~l.spin =>
        /\ l.oTag # ""
        /\ l.cTag # ""
        /\ l.oLen = Len(l.oTag)
        /\ l.cLen = Len(l.cTag)

\* C39: the package-level Parse(name, text, oTag, cTag) tokenizes the text
\* with the pair it is given: called with a non-empty pair, and up to a
\* delimiter change in the text, every tag opens with the given oTag and
\* closes with the given cTag, and the default {{ and }} open and close none.
C39_ParseUsesGivenPair ==
    (/\ consumer = "Parse"
     /\ w.args.via = "Parse"
     /\ w.args.oTag # ""
     /\ w.args.cTag # ""
     /\ \A k \in 1..Len(Emitted) : Emitted[k].typ # "tagDeltaDelimiter") =>
        /\ l.oTag = w.args.oTag
        /\ l.cTag = w.args.cTag
        /\ \A k \in 1..Len(Emitted) :
               /\ Emitted[k].typ = "itemCTag" => Emitted[k].value = w.args.cTag
               /\ Emitted[k].typ \in OpenTags => HasPrefix(Emitted[k].value, w.args.oTag)

====
